---- MODULE Spec2Model ----
(***************************************************************************)
(* EEG-FM-Digest: the schema-validated LLM response protocol               *)
(* (summarize_paper, triage_paper), the token-budget payload selection     *)
(* (_select_payload) and the schema default synthesizer (_schema_default). *)
(*                                                                         *)
(* JSON values are tagged records [t, v]; Python dicts are functions with  *)
(* a string domain; Python strings are TLA+ strings.  Numbers are counted  *)
(* in units of 1e-6 (Micro units make 1), which is the offset the          *)
(* synthesizer uses for exclusive bounds of non-integer numbers.           *)
(***************************************************************************)
EXTENDS Integers, Sequences, FiniteSets, TLC

VARIABLES
    pc,            \* position of the call: idle, initial, repair, done, raised
    fn,            \* the function running: summarize_paper, triage_paper, none
    args,          \* the call's arguments
    payload,       \* summarize_paper: the payload _select_payload returned
    mode_notes,    \* summarize_paper: the mode note _select_payload returned
    merged_notes,  \* summarize_paper: notes joined with the mode note
    count_calls,   \* how many times count_tokens was invoked
    prompts,       \* the prompts llm.generate received, in order
    responses,     \* what llm.generate did on each call, in order
    result,        \* the record returned (meaningful when pc = "done")
    ret,           \* which return statement ran: first, repair, fallback, none
    exc,           \* the exception that left the call (when pc = "raised")
    sd_pc,         \* schema default check: start, done
    sd_schema,     \* schema default check: the schema under test
    sd_value,      \* schema default check: the synthesized default
    pol,           \* decision policy check: [pc, decision, out]
    run,           \* run_month: the local variables of the run in progress
    db,            \* run_month: the triage and summaries tables of DigestDB
    heap,          \* the schema object shared by successive summarize_paper calls
    site,          \* write_month_site: backend rows in, month payload out
    batch,         \* run_batch: phases, files written, the database connection
    http,          \* OpenAICompatClient.generate: requests sent, outcome
    retry          \* a cached summary under the retry marks

protoVars == <<pc, fn, args, payload, mode_notes, merged_notes, count_calls,
               prompts, responses, result, ret, exc>>
sdVars == <<sd_pc, sd_schema, sd_value>>
runVars == <<run, db>>
unitVars == <<heap, site, batch, http, retry>>
vars == <<pc, fn, args, payload, mode_notes, merged_notes, count_calls,
          prompts, responses, result, ret, exc, sd_pc, sd_schema, sd_value,
          pol, run, db, heap, site, batch, http, retry>>

(***************************************************************************)
(* Bounds and program constants                                            *)
(***************************************************************************)
\* 1.0 in the model's number unit: the unit is the 1e-6 of summarize.py:176
Micro == 1000000
\* largest count the stub token counter returns
MaxCount == 2
\* largest minLength / maxLength / minItems of the schemas under test
MaxLen == 8
\* largest integer used as a numeric bound in the schemas under test
MaxBound == 1

Range(f) == {f[i] : i \in DOMAIN f}
Min(a, b) == IF a <= b THEN a ELSE b
Max(a, b) == IF a >= b THEN a ELSE b

(***************************************************************************)
(* JSON values                                                             *)
(***************************************************************************)
JNull == [t |-> "null", v |-> 0]
JBool(b) == [t |-> "bool", v |-> b]
JNum(m) == [t |-> "num", v |-> m]
JInt(n) == [t |-> "num", v |-> n * Micro]
JStr(s) == [t |-> "str", v |-> s]
JArr(seq) == [t |-> "arr", v |-> seq]
JObj(f) == [t |-> "obj", v |-> f]
EmptyDict == [k \in {} |-> JNull]

\* Python: sub in s
Contains(s, sub) ==
    \E i \in 1..(Len(s) - Len(sub) + 1) : SubSeq(s, i, i + Len(sub) - 1) = sub
\* Python: s[:n]
Prefix(s, n) == SubSeq(s, 1, Min(n, Len(s)))
\* Python: {**d, key: value}
DictSet(d, key, value) == (key :> value) @@ d
\* Python: d.get(key, dflt)
DictGet(d, key, dflt) == IF key \in DOMAIN d THEN d[key] ELSE dflt

(***************************************************************************)
(* JSON Schema: a schema is a function from the keywords it carries to     *)
(* their values.  "type" holds [list, names]: a single type name or a list *)
(* of names.  Bounds are in Micro units.                                    *)
(***************************************************************************)
TypeStr(n) == [list |-> FALSE, names |-> <<n>>]
TypeList(ns) == [list |-> TRUE, names |-> ns]
EmptySchema == [k \in {} |-> 0]
Has(schema, key) == key \in DOMAIN schema

TypeMatches(value, name) ==
    CASE name = "null" -> value.t = "null"
      [] name = "boolean" -> value.t = "bool"
      [] name = "string" -> value.t = "str"
      [] name = "array" -> value.t = "arr"
      [] name = "object" -> value.t = "obj"
      [] name = "number" -> value.t = "num"
      [] name = "integer" -> value.t = "num" /\ value.v % Micro = 0
      [] OTHER -> FALSE

JEq(a, b) == a.t = b.t /\ a.v = b.v

\* jsonschema.validate(data, schema): TRUE when no ValidationError is raised
RECURSIVE Valid(_, _)
Valid(value, schema) ==
    /\ Has(schema, "type") =>
         \E i \in DOMAIN schema.type.names : TypeMatches(value, schema.type.names[i])
    /\ Has(schema, "enum") => \E i \in DOMAIN schema.enum : JEq(value, schema.enum[i])
    /\ Has(schema, "const") => JEq(value, schema.const)
    /\ value.t = "num" =>
         /\ Has(schema, "minimum") => value.v >= schema.minimum
         /\ Has(schema, "exclusiveMinimum") => value.v > schema.exclusiveMinimum
         /\ Has(schema, "maximum") => value.v <= schema.maximum
         /\ Has(schema, "exclusiveMaximum") => value.v < schema.exclusiveMaximum
    /\ value.t = "str" =>
         /\ Has(schema, "minLength") => Len(value.v) >= schema.minLength
         /\ Has(schema, "maxLength") => Len(value.v) <= schema.maxLength
    /\ value.t = "arr" =>
         /\ Has(schema, "minItems") => Len(value.v) >= schema.minItems
         /\ Has(schema, "items") =>
              \A i \in DOMAIN value.v : Valid(value.v[i], schema.items)
    /\ value.t = "obj" =>
         /\ Has(schema, "required") =>
              \A i \in DOMAIN schema.required : schema.required[i] \in DOMAIN value.v
         /\ Has(schema, "properties") =>
              \A k \in DOMAIN value.v \cap DOMAIN schema.properties :
                  Valid(value.v[k], schema.properties[k])
         /\ (Has(schema, "additionalProperties") /\ ~schema.additionalProperties) =>
              DOMAIN value.v \subseteq
                  (IF Has(schema, "properties") THEN DOMAIN schema.properties ELSE {})
    /\ Has(schema, "oneOf") =>
         Cardinality({i \in DOMAIN schema.oneOf : Valid(value, schema.oneOf[i])}) = 1
    /\ Has(schema, "anyOf") =>
         \E i \in DOMAIN schema.anyOf : Valid(value, schema.anyOf[i])

(***************************************************************************)
(* The schema default synthesizer                                          *)
(***************************************************************************)
IsNullTyped(variant) ==
    Has(variant, "type") /\ ~variant.type.list /\ variant.type.names[1] = "null"

FirstNonNull(variants) ==
    IF \E i \in DOMAIN variants : ~IsNullTyped(variants[i])
    THEN variants[CHOOSE i \in DOMAIN variants :
                      /\ ~IsNullTyped(variants[i])
                      /\ \A j \in 1..(i - 1) : IsNullTyped(variants[j])]
    ELSE variants[1]

pick_schema_variant(schema) ==
    IF Has(schema, "oneOf") /\ Len(schema.oneOf) > 0 THEN FirstNonNull(schema.oneOf)
    ELSE IF Has(schema, "anyOf") /\ Len(schema.anyOf) > 0 THEN FirstNonNull(schema.anyOf)
    ELSE schema

\* Python: (base * reps)[:n] for base = "unknown"
RECURSIVE Repeat(_, _)
Repeat(s, reps) == IF reps <= 0 THEN "" ELSE s \o Repeat(s, reps - 1)

\* Python str() of an enum/const entry: only string entries are modelled
string_default(schema) ==
    IF Has(schema, "enum") /\ Len(schema.enum) > 0 THEN schema.enum[1].v
    ELSE IF Has(schema, "const") THEN schema.const.v
    ELSE
      LET min_len == DictGet(schema, "minLength", 0)
          max_len == DictGet(schema, "maxLength", 0)
          unknown == "unknown"
          reps == (min_len + Len(unknown) - 1) \div Len(unknown)
          padded == IF min_len > 0
                    THEN Prefix(Repeat(unknown, reps), Max(min_len, Len(unknown)))
                    ELSE unknown
      IN IF max_len > 0 THEN Prefix(padded, max_len) ELSE padded

\* Python int(x) of a float: truncation toward zero, in Micro units
IntTrunc(m) == IF m >= 0 THEN (m \div Micro) * Micro ELSE 0 - (((0 - m) \div Micro) * Micro)

numeric_default(schema, is_int) ==
    IF Has(schema, "enum") /\ Len(schema.enum) > 0
    THEN (IF is_int THEN IntTrunc(schema.enum[1].v) ELSE schema.enum[1].v)
    ELSE
      LET has_low == Has(schema, "minimum") \/ Has(schema, "exclusiveMinimum")
          low == IF Has(schema, "minimum") THEN schema.minimum
                 ELSE IF Has(schema, "exclusiveMinimum")
                      THEN schema.exclusiveMinimum + (IF is_int THEN Micro ELSE 1)
                      ELSE 0
          v0 == IF has_low THEN low ELSE 0
          v1 == IF is_int THEN IntTrunc(v0) ELSE v0
          v2 == IF Has(schema, "maximum") /\ v1 > schema.maximum
                THEN schema.maximum ELSE v1
      IN IF is_int
         THEN LET v3 == IF Has(schema, "exclusiveMaximum")
                           /\ v2 >= IntTrunc(schema.exclusiveMaximum)
                        THEN IntTrunc(schema.exclusiveMaximum) - Micro
                        ELSE v2
              IN IntTrunc(v3)
         ELSE IF Has(schema, "exclusiveMaximum") /\ v2 >= schema.exclusiveMaximum
              THEN schema.exclusiveMaximum - 1
              ELSE v2

\* the first entry of a type list that is not "null"
FirstNonNullName(names) ==
    names[CHOOSE i \in DOMAIN names :
              names[i] # "null" /\ \A j \in 1..(i - 1) : names[j] = "null"]

RECURSIVE schema_default(_)
schema_default(schema0) ==
    LET schema == pick_schema_variant(schema0)
        all_null == Has(schema, "type") /\ schema.type.list
                    /\ \A i \in DOMAIN schema.type.names : schema.type.names[i] = "null"
        type_value == IF ~Has(schema, "type") \/ all_null THEN "none"
                      ELSE IF schema.type.list THEN FirstNonNullName(schema.type.names)
                      ELSE schema.type.names[1]
    IN
    IF Has(schema, "default") THEN schema.default
    ELSE IF Has(schema, "const") THEN schema.const
    ELSE IF Has(schema, "enum") /\ Len(schema.enum) > 0 THEN schema.enum[1]
    ELSE IF all_null THEN JNull
    ELSE IF type_value = "null" THEN JNull
    ELSE IF type_value = "boolean" THEN JBool(FALSE)
    ELSE IF type_value = "integer" THEN JNum(numeric_default(schema, TRUE))
    ELSE IF type_value = "number" THEN JNum(numeric_default(schema, FALSE))
    ELSE IF type_value = "string" THEN JStr(string_default(schema))
    ELSE IF type_value = "array" THEN
        LET min_items == DictGet(schema, "minItems", 0)
            item_schema == DictGet(schema, "items", EmptySchema)
        IN JArr([i \in 1..Max(0, min_items) |-> schema_default(item_schema)])
    ELSE IF type_value = "object" \/ Has(schema, "properties") THEN
        LET props == DictGet(schema, "properties", EmptyDict)
            required == DictGet(schema, "required", <<>>)
        IN JObj([key \in Range(required) |->
                    IF key \in DOMAIN props THEN schema_default(props[key])
                    ELSE JStr("unknown")])
    ELSE JNull

(***************************************************************************)
(* Schemas under test for the synthesizer: built from the keywords it      *)
(* reads, and kept only when some value validates against them.            *)
(***************************************************************************)
BoundKeys == {"minimum", "exclusiveMinimum", "maximum", "exclusiveMaximum"}
BoundVals == {n * Micro : n \in (0 - 1)..MaxBound} \cup {Micro \div 2}
LenKeys == {"minLength", "maxLength"}

NumericSchemas ==
    UNION {{("type" :> TypeStr(tn)) @@ f : f \in [K -> BoundVals]} :
              <<tn, K>> \in {"integer", "number"} \X SUBSET BoundKeys}

StringSchemas ==
    UNION {{("type" :> TypeStr("string")) @@ f : f \in [K -> 0..MaxLen]} :
              K \in SUBSET LenKeys}
    \cup {[type |-> TypeStr("string"), enum |-> <<JStr("a"), JStr("abcd")>>],
          [type |-> TypeStr("string"), enum |-> <<JStr("a"), JStr("abcd")>>, minLength |-> 2],
          [type |-> TypeStr("string"), const |-> JStr("fixed")],
          [enum |-> <<JStr("a"), JInt(1)>>, type |-> TypeStr("integer")],
          [const |-> JBool(TRUE)]}

LeafSchemas ==
    {[type |-> TypeStr("integer")],
     [type |-> TypeStr("number")],
     [type |-> TypeStr("string")],
     [type |-> TypeStr("boolean")],
     [type |-> TypeStr("null")],
     [type |-> TypeStr("integer"), minimum |-> Micro],
     [type |-> TypeStr("string"), minLength |-> 1]}

TypeListSchemas ==
    {[type |-> TypeList(ns)] :
        ns \in {<<"null">>, <<"null", "string">>, <<"number", "null">>, <<"null", "array">>}}

ArraySchemas ==
    {[type |-> TypeStr("array")]}
    \cup {[type |-> TypeStr("array"), minItems |-> n] : n \in 0..2}
    \cup {[type |-> TypeStr("array"), minItems |-> n, items |-> it] :
             <<n, it>> \in (0..2) \X LeafSchemas}

ObjectSchemas ==
    {[type |-> TypeStr("object")], [type |-> TypeStr("object"), required |-> <<"a">>]}
    \cup {[type |-> TypeStr("object"), required |-> req, properties |-> [a |-> pa, b |-> pb]] :
             <<req, pa, pb>> \in {<<>>, <<"a">>, <<"a", "b">>} \X LeafSchemas \X LeafSchemas}
    \cup {[required |-> <<"a">>, properties |-> [a |-> pa]] : pa \in LeafSchemas}

VariantSchemas ==
    {[oneOf |-> <<a, b>>] : <<a, b>> \in LeafSchemas \X LeafSchemas}
    \cup {[anyOf |-> <<a, b>>] : <<a, b>> \in LeafSchemas \X LeafSchemas}

\* scalar values tried to decide whether a scalar schema can be satisfied
CandidateNumbers ==
    {b + d : <<b, d>> \in (BoundVals \cup {0}) \X {0 - Micro, 0 - 1, 0, 1, Micro}}
CandidateValues ==
    {JNull, JBool(FALSE), JBool(TRUE), JStr("a"), JStr("abcd"), JStr("fixed")}
    \cup {JNum(m) : m \in CandidateNumbers}
    \cup {JStr(Prefix("xxxxxxxxxxxxxxxxxxxxxxxx", n)) : n \in 0..(MaxLen + 1)}
Satisfiable(schema) == \E value \in CandidateValues : Valid(value, schema)

ScalarSchemas ==
    {s \in NumericSchemas \cup StringSchemas \cup VariantSchemas : Satisfiable(s)}
SchemaUniverse ==
    ScalarSchemas \cup LeafSchemas \cup TypeListSchemas \cup ArraySchemas \cup ObjectSchemas

(***************************************************************************)
(* Papers, triage records and schemas the calls are made with              *)
(***************************************************************************)
Paper1 ==
    [arxiv_id_base |-> "2501.10000", title |-> "EEG FM",
     published |-> "2025-01-10T00:00:00Z", categories |-> <<"cs.LG">>,
     summary |-> "abstract text", authors |-> <<"A">>,
     links |-> [abs |-> "x", pdf |-> "y"]]
Paper2 ==
    [arxiv_id_base |-> "2502.20000", title |-> "Other paper",
     published |-> "2025-02-03T12:30:00Z", categories |-> <<"eess.SP", "cs.LG">>,
     summary |-> "abs", authors |-> <<"B", "C">>,
     links |-> [abs |-> "x2", pdf |-> "y2"]]
Papers == {Paper1, Paper2}

\* triage records as run_month hands them to summarize_paper
TriageAccept ==
    [arxiv_id_base |-> JStr("2501.10000"), decision |-> JStr("accept"),
     confidence |-> JNum(850000),
     reasons |-> JArr(<<JStr("eeg central"), JStr("fm framing")>>)]
TriageBare == [decision |-> JStr("borderline"), reasons |-> JStr("single reason")]

Slices ==
    [abstract |-> "a", introduction |-> "b", methods |-> "c", results |-> "d",
     conclusion |-> "e", excerpt |-> "f"]

StringSchema == [type |-> TypeStr("string")]
DeterministicProps ==
    [arxiv_id_base |-> StringSchema,
     title |-> StringSchema,
     published_date |-> StringSchema,
     categories |-> [type |-> TypeStr("array"), items |-> StringSchema],
     used_fulltext |-> [type |-> TypeStr("boolean")],
     notes |-> StringSchema]
\* a data_scale field: a number or null
NullableNumber == [type |-> TypeList(<<"number", "null">>)]
ModelProps ==
    [one_liner |-> [type |-> TypeStr("string"), minLength |-> 1],
     key_points |-> [type |-> TypeStr("array"), items |-> StringSchema, minItems |-> 2],
     tags |-> [type |-> TypeStr("object")],
     data_scale |-> [type |-> TypeStr("object"),
                     properties |-> [subjects |-> NullableNumber,
                                     eeg_hours |-> NullableNumber,
                                     channels |-> NullableNumber]]]
SummaryRequired ==
    <<"arxiv_id_base", "title", "published_date", "categories", "one_liner",
      "key_points", "tags", "used_fulltext", "notes">>

\* every deterministic key declared and required, no other key admitted
SummarySchemaFull ==
    [type |-> TypeStr("object"), properties |-> DeterministicProps @@ ModelProps,
     required |-> SummaryRequired, additionalProperties |-> FALSE]
\* title, published_date, categories and notes are not declared
SummarySchemaPartial ==
    [type |-> TypeStr("object"),
     properties |-> [arxiv_id_base |-> StringSchema,
                     used_fulltext |-> [type |-> TypeStr("boolean")],
                     one_liner |-> [type |-> TypeStr("string"), minLength |-> 1]],
     required |-> <<"arxiv_id_base">>]
\* as SummarySchemaFull, with notes limited in length
NotesCap == 40
SummarySchemaCapped ==
    [type |-> TypeStr("object"),
     properties |->
         DictSet(DeterministicProps @@ ModelProps, "notes",
                 [type |-> TypeStr("string"), maxLength |-> NotesCap]),
     required |-> SummaryRequired, additionalProperties |-> FALSE]
SummarySchemas == {SummarySchemaFull, SummarySchemaPartial, SummarySchemaCapped}

TriageProps ==
    [arxiv_id_base |-> StringSchema,
     decision |-> [type |-> TypeStr("string"),
                   enum |-> <<JStr("accept"), JStr("borderline"), JStr("reject")>>],
     confidence |-> [type |-> TypeStr("number"), minimum |-> 0, maximum |-> Micro],
     reasons |-> [type |-> TypeStr("array"), items |-> StringSchema, minItems |-> 1]]
LegacyTriageProps ==
    [is_eeg_related |-> [type |-> TypeStr("boolean")],
     is_foundation_model_related |-> [type |-> TypeStr("boolean")],
     borderline |-> [type |-> TypeStr("boolean")],
     paper_type |-> StringSchema,
     suggested_digest_tags |-> [type |-> TypeStr("array"), items |-> StringSchema]]
\* the schema variant with the EEG / foundation-model flags
TriageSchemaLegacy ==
    [type |-> TypeStr("object"), properties |-> TriageProps @@ LegacyTriageProps,
     required |-> <<"arxiv_id_base", "is_eeg_related", "is_foundation_model_related",
                    "confidence", "reasons", "decision">>,
     additionalProperties |-> FALSE]
\* the schema variant with decision, confidence and reasons only
TriageSchemaCurrent ==
    [type |-> TypeStr("object"), properties |-> TriageProps,
     required |-> <<"decision", "confidence", "reasons">>,
     additionalProperties |-> FALSE]
TriageSchemas == {TriageSchemaLegacy, TriageSchemaCurrent}

\* allowed_tags: None, or a dict of category -> allowed values
AllowedNone == [is_dict |-> FALSE, v |-> [k \in {} |-> <<>>]]
AllowedTags1 ==
    [is_dict |-> TRUE,
     v |-> [paper_type |-> <<"eeg-fm", "benchmark", "survey">>, backbone |-> <<"transformer">>]]
AllowedTagsArgs == {AllowedNone, AllowedTags1}

(***************************************************************************)
(* What llm.generate and llm.count_tokens may do                           *)
(***************************************************************************)
\* RateLimitError and RuntimeError derive from Exception (llm_openai_compat.py);
\* RateLimitStop derives from BaseException (batch.py)
ExcKinds == {"RateLimitError", "RuntimeError", "RateLimitStop"}
IsException(kind) == kind # "RateLimitStop"

Raises(kind) == [raises |-> TRUE, exc |-> kind, text |-> ""]
Returns(text) == [raises |-> FALSE, exc |-> "none", text |-> text]

TextMalformed == "{bad"
TextNull == "null"
TextEmptyList == "[]"
TextSummaryForged == "{summary: every key, identity keys forged}"
TextSummaryOmit == "{summary: model keys only}"
TextSummaryInvalid == "{summary: one_liner is a number}"
TextSummaryScale == "{summary: model keys, data_scale values as strings}"
TextTriageFlags == "{triage: flags true, confidence 0.7, decision reject}"
TextTriageLow == "{triage: decision accept, confidence 0.2}"
TextTriageNullConf == "{triage: confidence null}"

ValueSummaryForged ==
    JObj([arxiv_id_base |-> JStr("9999.99999"),
          title |-> JStr("Forged title"),
          published_date |-> JStr("1999-01-01"),
          categories |-> JArr(<<JStr("forged.CAT")>>),
          one_liner |-> JStr("A concise summary line."),
          key_points |-> JArr(<<JStr("k1"), JStr("k2"), JStr("k3")>>),
          tags |-> JObj([paper_type |-> JArr(<<JStr("bogus"), JStr(" eeg-fm "), JStr("eeg-fm"),
                                               JStr("survey"), JStr("benchmark")>>),
                         backbone |-> JStr("transformer"),
                         extra |-> JArr(<<JStr("x")>>)]),
          used_fulltext |-> JBool(TRUE),
          notes |-> JStr("placeholder")])
ValueSummaryOmit ==
    JObj([one_liner |-> JStr("Compact EEG FM summary."),
          key_points |-> JArr(<<JStr("p1"), JStr("p2")>>),
          tags |-> JObj([paper_type |-> JArr(<<JStr("eeg-fm")>>)])])
\* the single key point and the data_scale strings of
\* test_summarize_normalizes_paper_type_and_numeric_fields, and one string
\* that is no number
ValueSummaryScale ==
    JObj([one_liner |-> JStr("Compact EEG FM summary."),
          unique_contribution |-> JStr("Efficient alternating attention."),
          key_points |-> JArr(<<JStr("Single point only")>>),
          tags |-> JObj([paper_type |-> JArr(<<JStr("eeg-fm")>>)]),
          data_scale |-> JObj([subjects |-> JStr("10k+"),
                               eeg_hours |-> JStr("not-a-number"),
                               channels |-> JStr("64")])])
ValueSummaryInvalid == JObj([one_liner |-> JInt(5), title |-> JStr("Forged title")])
ValueTriageFlags ==
    JObj([arxiv_id_base |-> JStr("2501.10000"),
          is_eeg_related |-> JBool(TRUE),
          is_foundation_model_related |-> JBool(TRUE),
          borderline |-> JBool(TRUE),
          paper_type |-> JStr("method"),
          confidence |-> JNum(700000),
          reasons |-> JArr(<<JStr("eeg is central")>>),
          suggested_digest_tags |-> JArr(<<>>),
          decision |-> JStr("reject")])
ValueTriageLow ==
    JObj([decision |-> JStr("accept"), confidence |-> JNum(200000),
          reasons |-> JArr(<<JStr("r1"), JStr("r2")>>)])
ValueTriageNullConf ==
    JObj([decision |-> JStr("accept"), confidence |-> JNull,
          reasons |-> JArr(<<JStr("r1")>>)])

SummaryTexts ==
    {TextMalformed, TextNull, TextEmptyList, TextSummaryForged, TextSummaryOmit,
     TextSummaryInvalid, TextSummaryScale}
TriageTexts ==
    {TextMalformed, TextEmptyList, TextTriageFlags, TextTriageLow, TextTriageNullConf}

Failed == [ok |-> FALSE, v |-> JNull]
Ok(value) == [ok |-> TRUE, v |-> value]

\* json.loads on the texts under test: a value, or a JSONDecodeError
parse_json_text(text) ==
    CASE text = TextMalformed -> Failed
      [] text = TextNull -> Ok(JNull)
      [] text = TextEmptyList -> Ok(JArr(<<>>))
      [] text = TextSummaryForged -> Ok(ValueSummaryForged)
      [] text = TextSummaryOmit -> Ok(ValueSummaryOmit)
      [] text = TextSummaryInvalid -> Ok(ValueSummaryInvalid)
      [] text = TextSummaryScale -> Ok(ValueSummaryScale)
      [] text = TextTriageFlags -> Ok(ValueTriageFlags)
      [] text = TextTriageLow -> Ok(ValueTriageLow)
      [] text = TextTriageNullConf -> Ok(ValueTriageNullConf)

\* the stub token counters: no count_tokens attribute, one that raises, one
\* whose result int() rejects, one that returns the integer value
CounterAbsent == [kind |-> "absent", value |-> 0]
CounterRaises == [kind |-> "raises", value |-> 0]
CounterNonInt == [kind |-> "nonint", value |-> 0]
CounterReturns(c) == [kind |-> "returns", value |-> c]
Counters ==
    {CounterAbsent, CounterRaises, CounterNonInt} \cup {CounterReturns(c) : c \in 0..MaxCount}

(***************************************************************************)
(* summarize.py: payload selection                                         *)
(***************************************************************************)
\* variant of str.strip() that removes nothing
StripNothing(s) == s

IsSpace(c) == c \in {" ", "\t", "\n", "\r"}
RECURSIVE LStrip(_)
LStrip(s) ==
    IF Len(s) > 0 /\ IsSpace(SubSeq(s, 1, 1)) THEN LStrip(SubSeq(s, 2, Len(s))) ELSE s
RECURSIVE RStrip(_)
RStrip(s) ==
    IF Len(s) > 0 /\ IsSpace(SubSeq(s, Len(s), Len(s)))
    THEN RStrip(SubSeq(s, 1, Len(s) - 1)) ELSE s
\* Python: s.strip()
Strip(s) == RStrip(LStrip(s))

\* Python float(x) of a JSON value: numbers and booleans convert, None, lists
\* and dicts raise TypeError (strings are not among the values under test)
Float(value) ==
    CASE value.t = "num" -> Ok(value.v)
      [] value.t = "bool" -> Ok(IF value.v THEN Micro ELSE 0)
      [] value.t \in {"null", "arr", "obj"} -> Failed

\* Python str(x), for the string values under test
StrOf(value) == CASE value.t = "str" -> value.v

summary_triage_payload(triage) ==
    LET reasons0 == DictGet(triage, "reasons", JArr(<<>>))
        reasons == IF reasons0.t # "arr" THEN JArr(<<JStr(StrOf(reasons0))>>) ELSE reasons0
        conf == Float(DictGet(triage, "confidence", JNum(0)))
    IN IF ~conf.ok THEN Failed
       ELSE Ok([decision |-> DictGet(triage, "decision", JStr("reject")),
                confidence |-> conf.v,
                reasons |-> reasons])

base_payload(paper, triage, allowed_tags) ==
    LET tp == summary_triage_payload(triage)
        base == [arxiv_id_base |-> paper.arxiv_id_base,
                 title |-> paper.title,
                 published_date |-> Prefix(paper.published, 10),
                 categories |-> paper.categories,
                 abstract |-> paper.summary,
                 triage |-> tp.v]
    IN IF ~tp.ok THEN Failed
       ELSE IF allowed_tags.is_dict /\ DOMAIN allowed_tags.v # {}
            THEN Ok(DictSet(base, "allowed_tags", allowed_tags.v))
            ELSE Ok(base)

\* the prompt is the template with the payload's JSON put in its placeholder
render_prompt(prompt_template, input_json) ==
    [template |-> prompt_template, input_json |-> input_json]

\* variant without the try/except of lines 47-50: the counter's exception
\* leaves the function
count_tokens_unguarded(llm, prompt) ==
    CASE llm.kind = "absent" -> [raised |-> FALSE, none |-> TRUE, v |-> 0]
      [] llm.kind \in {"raises", "nonint"} -> [raised |-> TRUE, none |-> TRUE, v |-> 0]
      [] llm.kind = "returns" -> [raised |-> FALSE, none |-> FALSE, v |-> llm.value]

\* [raised, none, v]: count_tokens' integer, or None; never raises
count_tokens_or_none(llm, prompt) ==
    CASE llm.kind = "absent" -> [raised |-> FALSE, none |-> TRUE, v |-> 0]
      [] llm.kind = "raises" -> [raised |-> FALSE, none |-> TRUE, v |-> 0]
      [] llm.kind = "nonint" -> [raised |-> FALSE, none |-> TRUE, v |-> 0]
      [] llm.kind = "returns" -> [raised |-> FALSE, none |-> FALSE, v |-> llm.value]

\* variant of line 71 that excludes the boundary count
within_limit_strict(token_count, max_input_tokens) ==
    ~token_count.none /\ token_count.v < max_input_tokens

\* variant of line 71 that lets a missing count through
within_limit_or_none(token_count, max_input_tokens) ==
    token_count.none \/ token_count.v <= max_input_tokens

\* the test of line 71: a count was obtained and it does not exceed the ceiling
within_limit(token_count, max_input_tokens) ==
    ~token_count.none /\ token_count.v <= max_input_tokens

\* [raised, payload, note, counted]; counted is the number of count_tokens calls
select_payload(paper, triage, raw_fulltext, fulltext_slices, prompt_template, llm, max_input_tokens, allowed_tags) ==
    LET base == base_payload(paper, triage, allowed_tags)
        sliced == DictSet(base.v, "fulltext_slices", fulltext_slices)
        payload_fulltext == DictSet(base.v, "fulltext", raw_fulltext)
        prompt_fulltext == render_prompt(prompt_template, payload_fulltext)
        token_count == count_tokens_or_none(llm, prompt_fulltext)
        invoked == IF llm.kind = "absent" THEN 0 ELSE 1
        raised == [raised |-> TRUE, payload |-> EmptyDict, note |-> "", counted |-> 0]
    IN IF ~base.ok THEN raised
       ELSE IF Strip(raw_fulltext) = ""
       THEN [raised |-> FALSE, payload |-> sliced,
             note |-> "input_mode=fulltext_slices;reason=missing_fulltext", counted |-> 0]
       ELSE IF token_count.raised THEN [raised EXCEPT !.counted = invoked]
       ELSE IF within_limit(token_count, max_input_tokens)
       THEN [raised |-> FALSE, payload |-> payload_fulltext,
             note |-> "input_mode=fulltext;prompt_tokens=" \o ToString(token_count.v),
             counted |-> invoked]
       ELSE IF token_count.none
       THEN [raised |-> FALSE, payload |-> sliced,
             note |-> "input_mode=fulltext_slices;reason=count_tokens_failed",
             counted |-> invoked]
       ELSE [raised |-> FALSE, payload |-> sliced,
             note |-> "input_mode=fulltext_slices;reason=fulltext_over_limit;prompt_tokens="
                      \o ToString(token_count.v) \o ";max_tokens="
                      \o ToString(max_input_tokens),
             counted |-> invoked]

(***************************************************************************)
(* summarize.py: normalization and fallback                                *)
(***************************************************************************)
schema_has_key(schema, key) ==
    Has(schema, "properties") /\ key \in DOMAIN schema.properties

DeterministicKeys ==
    {"arxiv_id_base", "title", "published_date", "categories", "used_fulltext", "notes"}

\* the pipeline's value of each deterministic key, as a JSON value
deterministic(paper, used_fulltext, notes) ==
    [arxiv_id_base |-> JStr(paper.arxiv_id_base),
     title |-> JStr(paper.title),
     published_date |-> JStr(Prefix(paper.published, 10)),
     categories |-> JArr([i \in DOMAIN paper.categories |-> JStr(paper.categories[i])]),
     used_fulltext |-> JBool(used_fulltext),
     notes |-> JStr(notes)]

\* variant that fills in only the declared keys the model left out
inject_missing_fields(out, schema, paper, used_fulltext, notes) ==
    LET det == deterministic(paper, used_fulltext, notes)
        declared == {key \in DeterministicKeys : schema_has_key(schema, key)}
    IN [key \in DOMAIN out \cup declared |->
            IF key \in DOMAIN out THEN out[key] ELSE det[key]]

inject_deterministic_fields(out, schema, paper, used_fulltext, notes) ==
    LET det == deterministic(paper, used_fulltext, notes)
        declared == {key \in DeterministicKeys : schema_has_key(schema, key)}
    IN [key \in DOMAIN out \cup declared |->
            IF key \in declared THEN det[key] ELSE out[key]]

\* variant of the loop that keeps a value each time it occurs
RECURSIVE KeepRepeated(_, _, _)
KeepRepeated(raw_values, allowed_set, keep) ==
    IF raw_values = <<>> THEN keep
    ELSE LET value_str == Strip(StrOf(Head(raw_values)))
             keep1 == IF value_str \in allowed_set THEN Append(keep, value_str) ELSE keep
         IN IF Len(keep1) >= 2 THEN keep1
            ELSE KeepRepeated(Tail(raw_values), allowed_set, keep1)

\* the loop of _filter_allowed_tags over one category's raw values
RECURSIVE KeepAllowed(_, _, _)
KeepAllowed(raw_values, allowed_set, keep) ==
    IF raw_values = <<>> THEN keep
    ELSE LET value_str == Strip(StrOf(Head(raw_values)))
             keep1 == IF value_str \in allowed_set /\ value_str \notin Range(keep)
                      THEN Append(keep, value_str) ELSE keep
         IN IF Len(keep1) >= 2 THEN keep1
            ELSE KeepAllowed(Tail(raw_values), allowed_set, keep1)

filter_allowed_tags(out, allowed_tags) ==
    IF ~allowed_tags.is_dict \/ DOMAIN allowed_tags.v = {} THEN out
    ELSE IF ~("tags" \in DOMAIN out /\ out["tags"].t = "obj") THEN out
    ELSE
      LET tags == out["tags"].v
          keep(category) ==
              LET raw0 == DictGet(tags, category, JArr(<<>>))
                  raw_values == IF raw0.t = "str" THEN <<raw0>>
                                ELSE IF raw0.t # "arr" THEN <<>>
                                ELSE raw0.v
                  kept == KeepAllowed(raw_values, Range(allowed_tags.v[category]), <<>>)
              IN JArr([i \in DOMAIN kept |-> JStr(kept[i])])
          filtered == [category \in DOMAIN allowed_tags.v |-> keep(category)]
      IN DictSet(out, "tags", JObj(filtered))

schema_fallback_output(schema, paper, used_fulltext, notes) ==
    LET raw == schema_default(schema)
        out == IF raw.t = "obj" THEN raw.v ELSE EmptyDict
    IN inject_deterministic_fields(out, schema, paper, used_fulltext, notes)

\* Python dict(data) of a parsed JSON value: a dict is copied, an empty list
\* or empty string gives {}, None, numbers and booleans raise TypeError, a
\* non-empty string raises ValueError (non-empty lists are not under test)
DictOf(data) ==
    CASE data.t = "obj" -> Ok(data.v)
      [] data.t = "arr" /\ data.v = <<>> -> Ok(EmptyDict)
      [] data.t = "str" -> IF data.v = "" THEN Ok(EmptyDict) ELSE Failed
      [] data.t \in {"null", "num", "bool"} -> Failed

\* [ok, v]: the normalized record, or an exception out of dict(data)
normalize_summary_output(data, schema, paper, used_fulltext, notes, allowed_tags) ==
    LET out == DictOf(data)
    IN IF ~out.ok THEN Failed
       ELSE Ok(filter_allowed_tags(
                   inject_deterministic_fields(out.v, schema, paper, used_fulltext, notes),
                   allowed_tags))

(***************************************************************************)
(* triage.py                                                               *)
(***************************************************************************)
\* validate_json(data, schema): TRUE when it returns, FALSE when it raises
\* SchemaValidationError
validate_json(data, schema) == Valid(JObj(data), schema)

\* the thresholds of apply_decision_policy, in Micro units
AcceptThreshold == 600000
BorderlineThreshold == 350000

\* Python truth value of a JSON value
Truthy(value) ==
    CASE value.t = "bool" -> value.v
      [] value.t = "null" -> FALSE
      [] value.t = "num" -> value.v # 0
      [] value.t = "str" -> value.v # ""
      [] value.t = "arr" -> value.v # <<>>
      [] value.t = "obj" -> DOMAIN value.v # {}

\* variant that keeps a decision the model wrote
apply_policy_if_undecided(decision) ==
    LET conf == Float(DictGet(decision, "confidence", JNum(0)))
    IN IF ~conf.ok THEN Failed
       ELSE IF "decision" \in DOMAIN decision THEN Ok(decision)
       ELSE IF conf.v >= BorderlineThreshold
       THEN Ok(DictSet(decision, "decision", JStr("borderline")))
       ELSE Ok(DictSet(decision, "decision", JStr("reject")))

\* [ok, v]: the decision dict with decision (and borderline) set, or the
\* exception float() raised
apply_decision_policy(decision) ==
    LET conf == Float(DictGet(decision, "confidence", JNum(0)))
        is_eeg == Truthy(DictGet(decision, "is_eeg_related", JNull))
        is_fm == Truthy(DictGet(decision, "is_foundation_model_related", JNull))
    IN IF ~conf.ok THEN Failed
       ELSE IF is_eeg /\ is_fm /\ conf.v >= AcceptThreshold
       THEN Ok(DictSet(DictSet(decision, "decision", JStr("accept")),
                       "borderline", JBool(FALSE)))
       ELSE IF conf.v >= BorderlineThreshold
       THEN Ok(DictSet(DictSet(decision, "decision", JStr("borderline")),
                       "borderline", JBool(TRUE)))
       ELSE Ok(DictSet(decision, "decision", JStr("reject")))

\* the record triage_paper returns when both attempts failed
triage_fallback(paper) ==
    [arxiv_id_base |-> JStr(paper.arxiv_id_base),
     is_eeg_related |-> JBool(FALSE),
     is_foundation_model_related |-> JBool(FALSE),
     borderline |-> JBool(FALSE),
     paper_type |-> JStr("other"),
     confidence |-> JNum(0),
     reasons |-> JArr(<<JStr("triage_json_error")>>),
     suggested_digest_tags |-> JArr(<<>>),
     decision |-> JStr("reject")]

\* one try block of triage_paper: parse, apply the policy, validate
triage_attempt(text, schema) ==
    LET parsed == parse_json_text(text)
        policy == IF parsed.ok /\ parsed.v.t = "obj"
                  THEN apply_decision_policy(parsed.v.v) ELSE Failed
    IN IF policy.ok /\ validate_json(policy.v, schema) THEN policy ELSE Failed

\* one try block of summarize_paper: parse, normalize, validate
summary_attempt(text, a, notes) ==
    LET parsed == parse_json_text(text)
        data == IF parsed.ok
                THEN normalize_summary_output(parsed.v, a.schema, a.paper,
                                              a.used_fulltext, notes, a.allowed_tags)
                ELSE Failed
    IN IF data.ok /\ validate_json(data.v, a.schema) THEN data ELSE Failed

(***************************************************************************)
(* Specification Spec: one call of summarize_paper or triage_paper, a step *)
(* per llm.generate call.                                                  *)
(***************************************************************************)
NoRecord == EmptyDict

ProtoIdle ==
    /\ pc = "idle"
    /\ fn = "none"
    /\ args = EmptyDict
    /\ payload = EmptyDict
    /\ mode_notes = ""
    /\ merged_notes = ""
    /\ count_calls = 0
    /\ prompts = <<>>
    /\ responses = <<>>
    /\ result = NoRecord
    /\ ret = "none"
    /\ exc = "none"

\* the configured ceiling handed to summarize_paper
MaxInputTokens == 1
FullTexts == {"", "  ", "long full text"}

\* each paper comes with the triage record the pipeline holds for it
PaperTriage == {<<Paper1, TriageAccept>>, <<Paper2, TriageBare>>}
SummarizeArgs ==
    {[paper |-> pt[1], triage |-> pt[2], raw_fulltext |-> ft, fulltext_slices |-> Slices,
      used_fulltext |-> uf, notes |-> n, llm |-> c, schema |-> sc,
      max_input_tokens |-> MaxInputTokens, allowed_tags |-> at] :
        <<pt, ft, uf, n, c, sc, at>> \in
            PaperTriage \X FullTexts \X BOOLEAN \X {"", "meta"} \X Counters
                \X SummarySchemas \X AllowedTagsArgs}
TriageArgs == [paper : Papers, schema : TriageSchemas]

SummaryResponses == {Raises(k) : k \in ExcKinds} \cup {Returns(t) : t \in SummaryTexts}
TriageResponses == {Raises(k) : k \in ExcKinds} \cup {Returns(t) : t \in TriageTexts}

repair_prompt(schema, raw) ==
    [template |-> "repair", schema_json |-> schema, bad_output |-> raw]

SchemaIdle == sd_pc = "off" /\ sd_schema = EmptySchema /\ sd_value = JNull

PolicyIdle == pol = [pc |-> "off"]

RunIdle == run = [pc |-> "off"] /\ db = [triage |-> EmptyDict, summaries |-> EmptyDict]

\* the units that are not running
Off == [pc |-> "off"]
HeapIdle == heap = Off
SiteIdle == site = Off
BatchIdle == batch = Off
HttpIdle == http = Off
RetryIdle == retry = Off
UnitsIdle == HeapIdle /\ SiteIdle /\ BatchIdle /\ HttpIdle /\ RetryIdle

Init == ProtoIdle /\ SchemaIdle /\ PolicyIdle /\ RunIdle /\ UnitsIdle

\* summarize_paper up to its first llm.generate call (lines 278-289)
CallSummarize(a) ==
    /\ pc = "idle"
    /\ LET sel == select_payload(a.paper, a.triage, a.raw_fulltext, a.fulltext_slices,
                                 "summarize", a.llm, a.max_input_tokens, a.allowed_tags)
       IN /\ fn' = "summarize_paper"
          /\ args' = a
          /\ count_calls' = count_calls + sel.counted
          /\ payload' = sel.payload
          /\ mode_notes' = sel.note
          /\ merged_notes' = IF a.notes # "" THEN a.notes \o ";" \o sel.note ELSE sel.note
          /\ pc' = IF sel.raised THEN "raised" ELSE "initial"
          /\ exc' = IF sel.raised THEN "TypeError" ELSE "none"
    /\ UNCHANGED <<prompts, responses, result, ret, sdVars, pol, runVars, unitVars>>

\* variant of lines 322-326 that leaves the notes as they were
fallback_notes_unmarked(notes) == notes

\* the notes of the fallback record (lines 322-326)
fallback_notes(notes) ==
    IF notes # "" THEN notes \o ";summary_json_error" ELSE "summary_json_error"

\* the except branch of the repair attempt (lines 321-330)
SummaryFallback(a, notes) ==
    LET fallback == schema_fallback_output(a.schema, a.paper, a.used_fulltext,
                                           fallback_notes(notes))
    IN IF validate_json(fallback, a.schema)
       THEN [pc |-> "done", result |-> fallback, ret |-> "fallback", exc |-> "none"]
       ELSE [pc |-> "raised", result |-> NoRecord, ret |-> "none",
             exc |-> "SchemaValidationError"]

\* the first llm.generate call and the first try block (lines 290-302)
SummarizeInitial(r) ==
    /\ pc = "initial" /\ fn = "summarize_paper"
    /\ prompts' = Append(prompts, render_prompt("summarize", payload))
    /\ responses' = Append(responses, r)
    /\ IF r.raises
       THEN pc' = "raised" /\ exc' = r.exc /\ UNCHANGED <<result, ret>>
       ELSE LET data == summary_attempt(r.text, args, merged_notes)
            IN IF data.ok
               THEN pc' = "done" /\ result' = data.v /\ ret' = "first" /\ UNCHANGED exc
               ELSE pc' = "repair" /\ UNCHANGED <<result, ret, exc>>
    /\ UNCHANGED <<fn, args, payload, mode_notes, merged_notes, count_calls, sdVars, pol, runVars, unitVars>>

\* variant of the repair step that asks for another repair when the repaired
\* output fails too
SummarizeRepairAgain(r) ==
    /\ pc = "repair" /\ fn = "summarize_paper"
    /\ prompts' = Append(prompts, repair_prompt(args.schema, responses[Len(responses)].text))
    /\ responses' = Append(responses, r)
    /\ LET data == IF r.raises THEN Failed ELSE summary_attempt(r.text, args, merged_notes)
       IN IF r.raises
          THEN pc' = "raised" /\ exc' = r.exc /\ UNCHANGED <<result, ret>>
          ELSE IF data.ok
          THEN pc' = "done" /\ result' = data.v /\ ret' = "repair" /\ UNCHANGED exc
          ELSE UNCHANGED <<pc, result, ret, exc>>
    /\ UNCHANGED <<fn, args, payload, mode_notes, merged_notes, count_calls, sdVars, pol, runVars, unitVars>>

\* the repair call, the second try block and the fallback (lines 303-330)
SummarizeRepair(r) ==
    /\ pc = "repair" /\ fn = "summarize_paper"
    /\ prompts' = Append(prompts, repair_prompt(args.schema, responses[1].text))
    /\ responses' = Append(responses, r)
    /\ LET data == IF r.raises THEN Failed ELSE summary_attempt(r.text, args, merged_notes)
           fb == SummaryFallback(args, merged_notes)
       IN IF r.raises /\ ~IsException(r.exc)
          THEN pc' = "raised" /\ exc' = r.exc /\ UNCHANGED <<result, ret>>
          ELSE IF data.ok
          THEN pc' = "done" /\ result' = data.v /\ ret' = "repair" /\ UNCHANGED exc
          ELSE pc' = fb.pc /\ result' = fb.result /\ ret' = fb.ret /\ exc' = fb.exc
    /\ UNCHANGED <<fn, args, payload, mode_notes, merged_notes, count_calls, sdVars, pol, runVars, unitVars>>

\* triage_paper up to its first llm.generate call (lines 47-56)
CallTriage(a) ==
    /\ pc = "idle"
    /\ fn' = "triage_paper"
    /\ args' = a
    /\ payload' = [arxiv_id_base |-> a.paper.arxiv_id_base,
                   title |-> a.paper.title,
                   authors |-> a.paper.authors,
                   categories |-> a.paper.categories,
                   published_date |-> Prefix(a.paper.published, 10),
                   abstract |-> a.paper.summary,
                   links |-> a.paper.links]
    /\ pc' = "initial"
    /\ UNCHANGED <<mode_notes, merged_notes, count_calls, prompts, responses, result,
                   ret, exc, sdVars, pol, runVars, unitVars>>

\* the first llm.generate call and the first try block (lines 57-62)
TriageInitial(r) ==
    /\ pc = "initial" /\ fn = "triage_paper"
    /\ prompts' = Append(prompts, render_prompt("triage", payload))
    /\ responses' = Append(responses, r)
    /\ IF r.raises
       THEN pc' = "raised" /\ exc' = r.exc /\ UNCHANGED <<result, ret>>
       ELSE LET data == triage_attempt(r.text, args.schema)
            IN IF data.ok
               THEN pc' = "done" /\ result' = data.v /\ ret' = "first" /\ UNCHANGED exc
               ELSE pc' = "repair" /\ UNCHANGED <<result, ret, exc>>
    /\ UNCHANGED <<fn, args, payload, mode_notes, merged_notes, count_calls, sdVars, pol, runVars, unitVars>>

\* the repair call, the second try block and the fallback (lines 63-85)
TriageRepair(r) ==
    /\ pc = "repair" /\ fn = "triage_paper"
    /\ prompts' = Append(prompts, repair_prompt(args.schema, responses[1].text))
    /\ responses' = Append(responses, r)
    /\ LET data == IF r.raises THEN Failed ELSE triage_attempt(r.text, args.schema)
       IN IF r.raises /\ ~IsException(r.exc)
          THEN pc' = "raised" /\ exc' = r.exc /\ UNCHANGED <<result, ret>>
          ELSE IF data.ok
          THEN pc' = "done" /\ result' = data.v /\ ret' = "repair" /\ UNCHANGED exc
          ELSE /\ pc' = "done" /\ result' = triage_fallback(args.paper)
               /\ ret' = "fallback" /\ UNCHANGED exc
    /\ UNCHANGED <<fn, args, payload, mode_notes, merged_notes, count_calls, sdVars, pol, runVars, unitVars>>

Next ==
    \/ \E a \in SummarizeArgs : CallSummarize(a)
    \/ \E r \in SummaryResponses : SummarizeInitial(r)
    \/ \E r \in SummaryResponses : SummarizeRepair(r)
    \/ \E a \in TriageArgs : CallTriage(a)
    \/ \E r \in TriageResponses : TriageInitial(r)
    \/ \E r \in TriageResponses : TriageRepair(r)

Spec == Init /\ [][Next]_vars

(***************************************************************************)
(* Properties of Spec                                                      *)
(***************************************************************************)
\* whether the i-th output failed parse/normalize/validate
OutputFailed(i) ==
    /\ i \in DOMAIN responses
    /\ ~responses[i].raises
    /\ IF fn = "summarize_paper"
       THEN ~summary_attempt(responses[i].text, args, merged_notes).ok
       ELSE ~triage_attempt(responses[i].text, args.schema).ok

BothOutputsFailed == OutputFailed(1) /\ OutputFailed(2)

\* the notes a first-attempt success of the current summarize_paper call carries
FirstAttemptNotes ==
    IF args.notes # "" THEN args.notes \o ";" \o mode_notes ELSE mode_notes

TriageMarker ==
    /\ "reasons" \in DOMAIN result
    /\ result["reasons"].t = "arr"
    /\ JStr("triage_json_error") \in Range(result["reasons"].v)

SummaryMarker ==
    /\ "notes" \in DOMAIN result
    /\ result["notes"].t = "str"
    /\ Contains(result["notes"].v, "summary_json_error")

CallBound ==
    /\ Len(responses) <= 2
    /\ Len(prompts) = Len(responses)
    /\ Len(responses) = 2 => pc \in {"done", "raised"}

C2_RateLimitPropagates ==
    \A i \in DOMAIN responses :
        (responses[i].raises /\ responses[i].exc = "RateLimitError") =>
            /\ pc = "raised" /\ exc = "RateLimitError"
            /\ Len(responses) = i
            /\ ret = "none"

\* C3: when generate returns a text on every call, whatever the texts and the
\* schema, the call does not end in an exception.
C3_NeverRaises ==
    pc = "raised" => \E i \in DOMAIN responses : responses[i].raises

\* C4: every returned record, from the first attempt, the repair attempt or
\* the fallback, validates against the schema passed to the call.
C4_ReturnedValidates ==
    pc = "done" => validate_json(result, args.schema)

\* the pipeline's value of a deterministic key for the current call
Expected(key) ==
    CASE key = "arxiv_id_base" -> JStr(args.paper.arxiv_id_base)
      [] key = "title" -> JStr(args.paper.title)
      [] key = "published_date" -> JStr(SubSeq(args.paper.published, 1, 10))
      [] key = "categories" ->
            JArr([i \in DOMAIN args.paper.categories |-> JStr(args.paper.categories[i])])
      [] key = "used_fulltext" -> JBool(args.used_fulltext)
      [] key = "notes" ->
            JStr(IF ret = "fallback" THEN FirstAttemptNotes \o ";summary_json_error"
                 ELSE FirstAttemptNotes)

AgreesWithPipeline(key) == key \in DOMAIN result /\ JEq(result[key], Expected(key))

ModeRecorded ==
    LET sent == prompts[1].input_json
        n == result["notes"].v
        full == Contains(n, "input_mode=fulltext;prompt_tokens=")
        sliced == Contains(n, "input_mode=fulltext_slices;reason=")
    IN /\ "fulltext" \in DOMAIN sent <=> full
       /\ "fulltext_slices" \in DOMAIN sent <=> sliced
       /\ full # sliced

FallbackRecorded ==
    ret = "fallback" <=> Contains(result["notes"].v, "summary_json_error")

\* C7 (as stated): the notes field a returned record carries records the input
\* mode sent, whether the fallback was used and whether a repair retry
\* occurred, so the notes of a repair success differ from those of a
\* first-attempt success of the same call.
C7_NotesTellPathsApart ==
    (fn = "summarize_paper" /\ pc = "done" /\ schema_has_key(args.schema, "notes")) =>
        /\ "notes" \in DOMAIN result /\ result["notes"].t = "str"
        /\ ModeRecorded
        /\ FallbackRecorded
        /\ ret = "repair" => result["notes"].v # FirstAttemptNotes

\* C7 (amended): the notes field a returned record carries records the input
\* mode sent and whether the fallback was used; a repair retry is not
\* recorded: a repair success carries exactly the notes of a first-attempt
\* success.
C7_NotesRecordModeAndFallback ==
    (fn = "summarize_paper" /\ pc = "done" /\ schema_has_key(args.schema, "notes")) =>
        /\ "notes" \in DOMAIN result /\ result["notes"].t = "str"
        /\ ModeRecorded
        /\ FallbackRecorded
        /\ ret \in {"first", "repair"} => result["notes"].v = FirstAttemptNotes

C7_Witness ==
    /\ fn = "summarize_paper" /\ pc = "done" /\ ret = "repair"
    /\ args.schema = SummarySchemaFull
    /\ args.llm = CounterReturns(MaxInputTokens + 1)
    /\ Strip(args.raw_fulltext) # ""
    /\ result["notes"].v = FirstAttemptNotes
    /\ Contains(result["notes"].v, "reason=fulltext_over_limit")

\* the payload of the first generate call, or the one selected for it
Sent == IF prompts = <<>> THEN payload ELSE prompts[1].input_json

\* C8: with non-blank full text and a counter returning c, c <= max sends
\* fulltext without fulltext_slices and notes c; c > max sends fulltext_slices
\* without fulltext and notes fulltext_over_limit, c and the ceiling.
C8_TokenBudget ==
    (fn = "summarize_paper" /\ args.llm.kind = "returns" /\ Strip(args.raw_fulltext) # "") =>
        LET c == args.llm.value
            max == args.max_input_tokens
        IN IF c <= max
           THEN /\ "fulltext" \in DOMAIN Sent /\ Sent["fulltext"] = args.raw_fulltext
                /\ "fulltext_slices" \notin DOMAIN Sent
                /\ mode_notes = "input_mode=fulltext;prompt_tokens=" \o ToString(c)
           ELSE /\ "fulltext_slices" \in DOMAIN Sent
                /\ Sent["fulltext_slices"] = args.fulltext_slices
                /\ "fulltext" \notin DOMAIN Sent
                /\ mode_notes =
                     "input_mode=fulltext_slices;reason=fulltext_over_limit;prompt_tokens="
                     \o ToString(c) \o ";max_tokens=" \o ToString(max)

C8_Witness ==
    /\ fn = "summarize_paper" /\ Len(prompts) >= 1
    /\ args.llm = CounterReturns(args.max_input_tokens)
    /\ Strip(args.raw_fulltext) # ""
    /\ "fulltext" \in DOMAIN prompts[1].input_json

\* C9: with non-blank full text, when the counter raises, returns a value
\* int() rejects, or is absent, the slices payload without fulltext is
\* selected, the note cites count_tokens_failed, and the generate call is
\* made with that payload.
C9_CountFailureFallsBack ==
    (/\ fn = "summarize_paper"
     /\ args.llm.kind \in {"absent", "raises", "nonint"}
     /\ Strip(args.raw_fulltext) # "") =>
        /\ "fulltext_slices" \in DOMAIN payload
        /\ payload["fulltext_slices"] = args.fulltext_slices
        /\ "fulltext" \notin DOMAIN payload
        /\ mode_notes = "input_mode=fulltext_slices;reason=count_tokens_failed"
        /\ \/ pc = "initial" /\ prompts = <<>>
           \/ Len(prompts) >= 1 /\ prompts[1].input_json = payload

C9_Witness ==
    /\ fn = "summarize_paper" /\ Len(prompts) >= 1
    /\ args.llm = CounterRaises
    /\ Strip(args.raw_fulltext) # ""
    /\ count_calls = 1
    /\ prompts[1].input_json = payload
    /\ "fulltext_slices" \in DOMAIN payload

\* C10: for every paper, triage record, full text, counter behaviour and
\* ceiling, payload selection ends without an exception, with a mode note and
\* a payload holding exactly one of fulltext and fulltext_slices.
C10_SelectPayloadTotal ==
    fn = "summarize_paper" =>
        /\ ~(pc = "raised" /\ responses = <<>>)
        /\ mode_notes # ""
        /\ ("fulltext" \in DOMAIN payload) # ("fulltext_slices" \in DOMAIN payload)

C10_Witness ==
    /\ fn = "summarize_paper" /\ pc = "initial"
    /\ args.triage = TriageBare
    /\ args.llm = CounterNonInt
    /\ Strip(args.raw_fulltext) # ""
    /\ DOMAIN payload \cap {"fulltext", "fulltext_slices"} = {"fulltext_slices"}

\* whether every character of s is whitespace
Blank(s) == \A i \in 1..Len(s) : IsSpace(SubSeq(s, i, i))

\* C11: when the full text is empty or whitespace-only, the slices payload is
\* selected with reason missing_fulltext, whatever the ceiling and the
\* counter, and the counter is not called.
C11_BlankFulltextUsesSlices ==
    (fn = "summarize_paper" /\ Blank(args.raw_fulltext)) =>
        /\ "fulltext_slices" \in DOMAIN Sent
        /\ Sent["fulltext_slices"] = args.fulltext_slices
        /\ "fulltext" \notin DOMAIN Sent
        /\ mode_notes = "input_mode=fulltext_slices;reason=missing_fulltext"
        /\ count_calls = 0

C11_Witness ==
    /\ fn = "summarize_paper" /\ Len(prompts) >= 1
    /\ args.raw_fulltext = "  "
    /\ args.llm = CounterReturns(0)
    /\ count_calls = 0
    /\ "fulltext_slices" \in DOMAIN prompts[1].input_json

\* C19: the record triage_paper returns carries the source paper's
\* arxiv_id_base on the first-attempt, repair and fallback paths.
C19_TriageCarriesPaperId ==
    (fn = "triage_paper" /\ pc = "done") =>
        /\ "arxiv_id_base" \in DOMAIN result
        /\ JEq(result["arxiv_id_base"], JStr(args.paper.arxiv_id_base))

\* C20: data_scale values the model emitted as strings come back as numbers
\* ("10k+" as a number, "64" as 64) and a string that is no number comes back
\* as null.
C20_DataScaleParsed ==
    (/\ fn = "summarize_paper" /\ pc = "done" /\ ret \in {"first", "repair"}
     /\ responses[Len(responses)].text = TextSummaryScale) =>
        /\ "data_scale" \in DOMAIN result
        /\ result["data_scale"].t = "obj"
        /\ result["data_scale"].v["subjects"].t = "num"
        /\ JEq(result["data_scale"].v["channels"], JNum(64 * Micro))
        /\ JEq(result["data_scale"].v["eeg_hours"], JNull)

\* the entries of a JSON array that are non-empty strings
FilledEntries(entries) ==
    LET filled(x) == x.t = "str" /\ Strip(x.v) # ""
    IN SelectSeq(entries, filled)

\* the value the model wrote under key, as a list of zero or one filled entry
FilledField(model, key) ==
    IF key \in DOMAIN model THEN FilledEntries(<<model[key]>>) ELSE <<>>

\* the last text the model returned, parsed
LastModelOutput == parse_json_text(responses[Len(responses)].text)

\* C21: in a record summarize_paper returns from the model's output,
\* key_points has at most 3 entries, and when the model wrote fewer than 2
\* non-empty entries it holds them followed by one_liner and then
\* unique_contribution, up to 2 entries.
C21_KeyPointsBackfilled ==
    (/\ fn = "summarize_paper" /\ pc = "done" /\ ret \in {"first", "repair"}
     /\ "key_points" \in DOMAIN result
     /\ result["key_points"].t = "arr") =>
        LET model == LastModelOutput.v.v
            supplied == FilledEntries(model["key_points"].v)
            sources == FilledField(model, "one_liner") \o FilledField(model, "unique_contribution")
            backfilled == supplied \o sources
        IN /\ Len(result["key_points"].v) <= 3
           /\ Len(supplied) < 2 =>
                  result["key_points"].v = SubSeq(backfilled, 1, Min(2, Len(backfilled)))

\* the values the model wrote for a tag category, as stripped strings
ModelTagValues(model_tags, category) ==
    LET raw == DictGet(model_tags, category, JArr(<<>>))
        entries == IF raw.t = "str" THEN <<raw>> ELSE IF raw.t = "arr" THEN raw.v ELSE <<>>
    IN [i \in DOMAIN entries |-> Strip(StrOf(entries[i]))]

\* positions of the first occurrences of allowed values
FirstAllowed(values, allowed) ==
    {i \in DOMAIN values :
        values[i] \in allowed /\ \A j \in 1..(i - 1) : values[j] # values[i]}

TagsFiltered ==
    /\ fn = "summarize_paper" /\ pc = "done" /\ ret \in {"first", "repair"}
    /\ args.allowed_tags.is_dict /\ DOMAIN args.allowed_tags.v # {}
    /\ "tags" \in DOMAIN LastModelOutput.v.v
    /\ LastModelOutput.v.v["tags"].t = "obj"

\* C22: with a non-empty allow-list and model tags that are an object, the
\* returned tags hold, for every category of the allow-list and no other, at
\* most 2 values, all allowed, without duplicates, in the order of their
\* first occurrence in the model's output; nothing is raised for the rest.
C22_TagsFilteredToAllowList ==
    TagsFiltered =>
        /\ result["tags"].t = "obj"
        /\ DOMAIN result["tags"].v = DOMAIN args.allowed_tags.v
        /\ \A category \in DOMAIN args.allowed_tags.v :
              LET kept == result["tags"].v[category].v
                  allowed == Range(args.allowed_tags.v[category])
                  values == ModelTagValues(LastModelOutput.v.v["tags"].v, category)
                  first == FirstAllowed(values, allowed)
              IN /\ Len(kept) <= 2
                 /\ \A k \in DOMAIN kept : kept[k].t = "str" /\ kept[k].v \in allowed
                 /\ \A k, m \in DOMAIN kept : k # m => kept[k].v # kept[m].v
                 /\ Len(kept) = Min(2, Cardinality(first))
                 /\ \A k \in DOMAIN kept :
                       \E i \in first : /\ values[i] = kept[k].v
                                        /\ Cardinality({j \in first : j < i}) = k - 1

C22_Witness ==
    /\ TagsFiltered
    /\ responses[Len(responses)].text = TextSummaryForged
    /\ args.allowed_tags = AllowedTags1
    /\ result["tags"].v["paper_type"].v = <<JStr("eeg-fm"), JStr("survey")>>
    /\ result["tags"].v["backbone"].v = <<JStr("transformer")>>
    /\ "extra" \notin DOMAIN result["tags"].v

(***************************************************************************)
(* Specification SpecSchema: the synthesizer applied to each schema under  *)
(* test.                                                                   *)
(***************************************************************************)
SchemaInit ==
    /\ sd_pc = "start"
    /\ sd_schema \in SchemaUniverse
    /\ sd_value = JNull
    /\ ProtoIdle /\ PolicyIdle /\ RunIdle /\ UnitsIdle

SynthesizeDefault ==
    /\ sd_pc = "start"
    /\ sd_value' = schema_default(sd_schema)
    /\ sd_pc' = "done"
    /\ UNCHANGED <<sd_schema, protoVars, pol, runVars, unitVars>>

SchemaNext == SynthesizeDefault

SpecSchema == SchemaInit /\ [][SchemaNext]_vars

\* C5: whenever the synthesizer has returned a value for a schema built from
\* the keywords it reads, that value validates against the same schema.
C5_DefaultValidates == sd_pc = "done" => Valid(sd_value, sd_schema)

\* an integer-typed schema without enum, default or const whose bounds are
\* whole numbers
IntegerBounded(schema) ==
    /\ DOMAIN schema \subseteq {"type"} \cup BoundKeys
    /\ Has(schema, "type") /\ schema.type = TypeStr("integer")
    /\ \A key \in DOMAIN schema \cap BoundKeys : schema[key] % Micro = 0

\* m, in Micro units, satisfies every bound the schema carries
WithinBounds(m, schema) ==
    /\ Has(schema, "minimum") => m >= schema.minimum
    /\ Has(schema, "exclusiveMinimum") => m > schema.exclusiveMinimum
    /\ Has(schema, "maximum") => m <= schema.maximum
    /\ Has(schema, "exclusiveMaximum") => m < schema.exclusiveMaximum

IntegerSatisfiable(schema) ==
    \E n \in (0 - (MaxBound + 2))..(MaxBound + 2) : WithinBounds(n * Micro, schema)

\* C26: for an integer-typed schema without enum whose whole-number bounds
\* some integer satisfies, the synthesized default is an integer within
\* every bound present, and 0 when the schema carries no bound.
C26_IntegerDefaultWithinBounds ==
    (sd_pc = "done" /\ IntegerBounded(sd_schema) /\ IntegerSatisfiable(sd_schema)) =>
        /\ sd_value.t = "num"
        /\ sd_value.v % Micro = 0
        /\ WithinBounds(sd_value.v, sd_schema)
        /\ DOMAIN sd_schema \cap BoundKeys = {} => sd_value.v = 0

(***************************************************************************)
(* Specification SpecPolicy: apply_decision_policy applied to each raw     *)
(* decision object under test.                                             *)
(***************************************************************************)
\* a flag of the raw decision: true, false or absent
FlagValues == {"true", "false", "absent"}
\* confidence of the raw decision, in Micro units
ConfidenceNumbers == {0, 340000, 349999, 350000, 500000, 599999, 600000, 700000, Micro}
\* how the raw decision carries its confidence: not at all, as null, as a number
ConfidenceKinds == {"absent", "null", "num"}
\* the decision the model wrote, or "absent"
ModelDecisions == {"absent", "accept", "borderline", "reject"}

WithFlag(d, key, flag) ==
    IF flag = "absent" THEN d ELSE DictSet(d, key, JBool(flag = "true"))

WithConfidence(d, kind, conf) ==
    IF kind = "absent" THEN d
    ELSE IF kind = "null" THEN DictSet(d, "confidence", JNull)
    ELSE DictSet(d, "confidence", JNum(conf))

WithDecision(d, dec) == IF dec = "absent" THEN d ELSE DictSet(d, "decision", JStr(dec))

RawDecisions ==
    {WithDecision(WithConfidence(WithFlag(WithFlag(
            [reasons |-> JArr(<<JStr("r1")>>)], "is_eeg_related", q[1]),
            "is_foundation_model_related", q[2]), q[3], q[4]), q[5]) :
        q \in FlagValues \X FlagValues \X ConfidenceKinds \X ConfidenceNumbers \X ModelDecisions}

PolicyInit ==
    /\ pol \in {[pc |-> "start", decision |-> d] : d \in RawDecisions}
    /\ ProtoIdle /\ SchemaIdle /\ RunIdle /\ UnitsIdle

ApplyPolicy ==
    /\ pol.pc = "start"
    /\ pol' = [pc |-> "done", decision |-> pol.decision,
               out |-> apply_decision_policy(pol.decision)]
    /\ UNCHANGED <<protoVars, sdVars, runVars, unitVars>>

PolicyNext == ApplyPolicy

SpecPolicy == PolicyInit /\ [][PolicyNext]_vars

\* the decision the thresholds give for the raw decision object d
PolicyDecision(d) ==
    LET conf == IF "confidence" \in DOMAIN d THEN d["confidence"].v ELSE 0
        flag(key) == key \in DOMAIN d /\ d[key] = JBool(TRUE)
    IN IF flag("is_eeg_related") /\ flag("is_foundation_model_related")
          /\ 10 * conf >= 6 * Micro
       THEN "accept"
       ELSE IF 100 * conf >= 35 * Micro THEN "borderline" ELSE "reject"

RunPaperA ==
    [arxiv_id_base |-> "2501.00001", published |-> "2025-01-20T00:00:00Z",
     links |-> [pdf |-> "http://arxiv.org/pdf/2501.00001"]]
RunPaperB ==
    [arxiv_id_base |-> "2501.00002", published |-> "2025-01-05T00:00:00Z",
     links |-> [pdf |-> "http://arxiv.org/pdf/2501.00002"]]
\* a candidate without a pdf link, published with RunPaperB
RunPaperC ==
    [arxiv_id_base |-> "2501.00003", published |-> "2025-01-05T00:00:00Z",
     links |-> [abs |-> "http://arxiv.org/abs/2501.00003"]]

\* the candidate lists fetch_month_candidates returns
FetchedLists ==
    {<<RunPaperA, RunPaperB>>, <<RunPaperB, RunPaperA>>, <<RunPaperC, RunPaperA, RunPaperB>>}

\* the sort keys of the run, in Python's str order
SortedStrings ==
    <<"2025-01-05", "2025-01-05T00:00:00Z", "2025-01-20", "2025-01-20T00:00:00Z",
      "2501.00001", "2501.00002", "2501.00003">>

StrRank(s) == CHOOSE i \in 1..Len(SortedStrings) : SortedStrings[i] = s

\* rank of the tuple (a, b) in Python's tuple order
PairRank(a, b) == StrRank(a) * (Len(SortedStrings) + 1) + StrRank(b)

\* sorted(rows, key=...): stable, ascending; keys[k] is the rank of the
\* key of rows[k]
SortedBy(rows, keys) ==
    LET n == Len(rows)
        before(j, i) == keys[j] < keys[i] \/ (keys[j] = keys[i] /\ j < i)
        pos(i) == 1 + Cardinality({j \in 1..n : before(j, i)})
    IN [p \in 1..n |-> rows[CHOOSE i \in 1..n : pos(i) = p]]

Take(s, n) == SubSeq(s, 1, Min(n, Len(s)))

\* variant of the triage sort that keeps the processing order
unsorted_rows(rows) == rows

sorted_by_id(rows) ==
    SortedBy(rows, [k \in 1..Len(rows) |-> StrRank(rows[k].arxiv_id_base)])

sorted_by_published(papers) ==
    SortedBy(papers, [k \in 1..Len(papers) |->
                         PairRank(papers[k].published, papers[k].arxiv_id_base)])

sorted_by_published_date(summaries) ==
    SortedBy(summaries, [k \in 1..Len(summaries) |->
                            PairRank(summaries[k].published_date, summaries[k].arxiv_id_base)])

\* the arguments of run_month that the stages read
DefaultRunConfig ==
    [force |-> FALSE, force_triage |-> FALSE, force_summary |-> FALSE,
     stop_on_rate_limit |-> FALSE, include_borderline |-> FALSE, no_pdf |-> FALSE,
     max_accepted |-> 3, max_borderline_pdfs |-> 1]

RunConfigs ==
    {DefaultRunConfig,
     [DefaultRunConfig EXCEPT !.force = TRUE],
     [DefaultRunConfig EXCEPT !.force_triage = TRUE],
     [DefaultRunConfig EXCEPT !.force_summary = TRUE],
     [DefaultRunConfig EXCEPT !.stop_on_rate_limit = TRUE],
     [DefaultRunConfig EXCEPT !.include_borderline = TRUE],
     [DefaultRunConfig EXCEPT !.no_pdf = TRUE],
     [DefaultRunConfig EXCEPT !.max_accepted = 1]}

force_triage(cfg) == cfg.force \/ cfg.force_triage
force_summary(cfg) == cfg.force \/ cfg.force_summary

TriageRow(aid, decision, confidence) ==
    [arxiv_id_base |-> aid, decision |-> decision, confidence |-> confidence,
     reasons |-> <<"r1", "r2">>]

Summary(paper, one_liner) ==
    [arxiv_id_base |-> paper.arxiv_id_base, published_date |-> Prefix(paper.published, 10),
     one_liner |-> one_liner]

\* the automatic reject recorded when triage_paper raises
exception_row(aid, raised) ==
    [arxiv_id_base |-> aid, decision |-> "reject", confidence |-> 0,
     reasons |-> <<"triage_exception:" \o raised, "automatic_reject_fallback">>]

\* the tables earlier runs left behind
StoredTables ==
    LET a == RunPaperA.arxiv_id_base
        b == RunPaperB.arxiv_id_base
        accept(id) == TriageRow(id, "accept", 900000)
    IN {[triage |-> EmptyDict, summaries |-> EmptyDict],
        [triage |-> (a :> accept(a)), summaries |-> EmptyDict],
        [triage |-> (a :> TriageRow(a, "reject", 100000)), summaries |-> EmptyDict],
        [triage |-> (a :> exception_row(a, "RuntimeError")), summaries |-> EmptyDict],
        [triage |-> (a :> accept(a)), summaries |-> (a :> Summary(RunPaperA, "stored"))],
        [triage |-> (a :> accept(a)) @@ (b :> accept(b)),
         summaries |-> (b :> Summary(RunPaperB, "stored"))]}

\* what triage_paper does for paper: the record it returns or the
\* exception it raises
TriageOutcomes(paper, candidates) ==
    LET aid == paper.arxiv_id_base
        others == {candidates[k].arxiv_id_base : k \in 1..Len(candidates)} \ {aid}
    IN {[raises |-> FALSE, v |-> TriageRow(aid, "accept", 900000)],
        [raises |-> FALSE, v |-> TriageRow(aid, "borderline", 500000)],
        [raises |-> FALSE, v |-> TriageRow(aid, "reject", 100000)],
        [raises |-> FALSE,
         v |-> [decision |-> "accept", confidence |-> 900000, reasons |-> <<"r1", "r2">>]],
        [raises |-> TRUE, exc |-> "RateLimitError"],
        [raises |-> TRUE, exc |-> "RuntimeError"]}
       \cup {[raises |-> FALSE, v |-> TriageRow(id, "accept", 900000)] : id \in others}

\* what download_pdf, extract_text and the read of the text file do
PdfOutcomes ==
    {[raises |-> FALSE, text |-> "full text",
      meta |-> JObj([tool |-> JStr("pypdf"), error |-> JNull])],
     [raises |-> FALSE, text |-> "",
      meta |-> JObj([tool |-> JStr("pypdf"), error |-> JNull])],
     [raises |-> FALSE, text |-> "",
      meta |-> JObj([tool |-> JStr("none"), error |-> JStr("extract_failed:EOF")])],
     [raises |-> TRUE, exc |-> "HTTPStatusError"]}

\* what summarize_paper does for paper
SummarizeOutcomes(paper) ==
    {[raises |-> FALSE, v |-> Summary(paper, "new")],
     [raises |-> TRUE, exc |-> "RateLimitError"],
     [raises |-> TRUE, exc |-> "RuntimeError"]}

empty_pdf_state ==
    [downloaded |-> FALSE, pdf_path |-> JNull, text_path |-> JNull, extract_meta |-> JNull]

skipped_pdf_state(error) ==
    [downloaded |-> FALSE, pdf_path |-> JNull, text_path |-> JNull,
     extract_meta |-> JObj([error |-> JStr(error)])]

triage_view(triage) ==
    [decision |-> DictGet(triage, "decision", "reject"),
     confidence |-> DictGet(triage, "confidence", 0),
     reasons |-> DictGet(triage, "reasons", <<>>)]

cached_triage_row(aid, cached) ==
    [arxiv_id_base |-> aid, decision |-> DictGet(cached, "decision", "reject"),
     confidence |-> DictGet(cached, "confidence", 0),
     reasons |-> DictGet(cached, "reasons", <<>>)]

\* {row["arxiv_id_base"]: row for row in rows}: the last row of an id wins
triage_map_of(rows) ==
    LET ids == {rows[k].arxiv_id_base : k \in 1..Len(rows)}
        last(id) == CHOOSE k \in 1..Len(rows) :
                        /\ rows[k].arxiv_id_base = id
                        /\ \A m \in (k + 1)..Len(rows) : rows[m].arxiv_id_base # id
    IN [id \in ids |-> rows[last(id)]]

decided(triage_map, paper, decision) ==
    /\ paper.arxiv_id_base \in DOMAIN triage_map
    /\ "decision" \in DOMAIN triage_map[paper.arxiv_id_base]
    /\ triage_map[paper.arxiv_id_base].decision = decision

\* variant that takes borderline candidates whatever include_borderline says
select_with_borderline(candidates, triage_map, cfg) ==
    LET is_accept(p) == decided(triage_map, p, "accept")
        is_borderline(p) == decided(triage_map, p, "borderline")
        borderline == Take(SelectSeq(candidates, is_borderline), cfg.max_borderline_pdfs)
    IN Take(sorted_by_published(SelectSeq(candidates, is_accept) \o borderline),
            cfg.max_accepted)

\* the candidates that go to the summary stage
select_accepted(candidates, triage_map, cfg) ==
    LET is_accept(p) == decided(triage_map, p, "accept")
        is_borderline(p) == decided(triage_map, p, "borderline")
        accepted == SelectSeq(candidates, is_accept)
        borderline == Take(SelectSeq(candidates, is_borderline), cfg.max_borderline_pdfs)
    IN Take(sorted_by_published(IF cfg.include_borderline
                                THEN accepted \o borderline ELSE accepted),
            cfg.max_accepted)

has_pdf_link(paper) == "pdf" \in DOMAIN paper.links /\ paper.links["pdf"] # ""

\* pdf_state, raw_text and notes before the summary call
fetch_text(paper, cfg, out) ==
    IF cfg.no_pdf
    THEN [pdf_state |-> skipped_pdf_state("no_pdf_mode"), raw_text |-> "",
          notes |-> "summary_skipped:no_pdf_mode"]
    ELSE IF ~has_pdf_link(paper)
    THEN [pdf_state |-> skipped_pdf_state("missing_pdf_link"), raw_text |-> "",
          notes |-> "summary_skipped:missing_pdf_link"]
    ELSE IF out.raises
    THEN [pdf_state |-> [downloaded |-> FALSE, pdf_path |-> JStr("pdfs"),
                         text_path |-> JStr("text"),
                         extract_meta |->
                             JObj([error |-> JStr("download_or_extract_failed:" \o out.exc)])],
          raw_text |-> "",
          notes |-> "summary_skipped:pdf_failed:" \o out.exc]
    ELSE [pdf_state |-> [downloaded |-> TRUE, pdf_path |-> JStr("pdfs"),
                         text_path |-> JStr("text"), extract_meta |-> out.meta],
          raw_text |-> out.text,
          notes |-> "json.dumps(meta)"]

backend_row(paper, triage_map, summary_map, pdf_map) ==
    LET aid == paper.arxiv_id_base
    IN [arxiv_id_base |-> aid, published |-> paper.published,
        triage |-> triage_view(DictGet(triage_map, aid, EmptyDict)),
        paper_summary |-> DictGet(summary_map, aid, JNull),
        pdf |-> DictGet(pdf_map, aid, empty_pdf_state)]

RunInit ==
    /\ db \in StoredTables
    /\ \E cfg \in RunConfigs, candidates \in FetchedLists :
        run = [pc |-> "triage", cfg |-> cfg, candidates |-> candidates, stored |-> db,
               i |-> 1, triage_rows |-> <<>>, triage_calls |-> <<>>,
               triage_out |-> <<>>, triage_map |-> EmptyDict, accepted |-> <<>>,
               j |-> 1, summaries |-> <<>>, summary_map |-> EmptyDict,
               pdf_map |-> EmptyDict, summarize_calls |-> <<>>,
               papers_out |-> <<>>, backend_rows |-> <<>>,
               rate_limited |-> <<>>, exc |-> "none"]
    /\ ProtoIdle /\ SchemaIdle /\ PolicyIdle /\ UnitsIdle

\* pipeline.py 151-163: the candidate has a cached triage record
TriageCached ==
    /\ run.pc = "triage" /\ run.i <= Len(run.candidates)
    /\ LET aid == run.candidates[run.i].arxiv_id_base
       IN /\ ~force_triage(run.cfg)
          /\ aid \in DOMAIN db.triage
          /\ run' = [run EXCEPT
                        !.triage_rows = Append(@, cached_triage_row(aid, db.triage[aid])),
                        !.i = @ + 1]
    /\ UNCHANGED <<db, protoVars, sdVars, pol, unitVars>>

\* pipeline.py 151-153, 164-184: triage_paper is called for the candidate
TriageCall ==
    /\ run.pc = "triage" /\ run.i <= Len(run.candidates)
    /\ LET paper == run.candidates[run.i]
           aid == paper.arxiv_id_base
       IN /\ force_triage(run.cfg) \/ aid \notin DOMAIN db.triage
          /\ \E out \in TriageOutcomes(paper, run.candidates) :
                LET limited == out.raises /\ out.exc = "RateLimitError"
                    called == [run EXCEPT
                                  !.triage_calls = Append(@, aid),
                                  !.rate_limited =
                                      IF limited THEN Append(@, "triage") ELSE @]
                    triage_result == IF out.raises THEN exception_row(aid, out.exc) ELSE out.v
                IN IF limited /\ run.cfg.stop_on_rate_limit
                   THEN /\ run' = [called EXCEPT !.pc = "raised", !.exc = out.exc]
                        /\ UNCHANGED db
                   ELSE IF "arxiv_id_base" \notin DOMAIN triage_result
                   THEN /\ run' = [called EXCEPT
                                      !.triage_rows = Append(@, triage_result),
                                      !.pc = "raised", !.exc = "KeyError"]
                        /\ UNCHANGED db
                   ELSE /\ run' = [called EXCEPT
                                      !.triage_rows = Append(@, triage_result),
                                      !.i = @ + 1]
                        /\ db' = [db EXCEPT
                                     !.triage = DictSet(@, triage_result.arxiv_id_base,
                                                        triage_result)]
    /\ UNCHANGED <<protoVars, sdVars, pol, unitVars>>

\* pipeline.py 187-188, 210-217: the triage rows are written and the
\* candidates of the summary stage chosen
WriteTriage ==
    /\ run.pc = "triage" /\ run.i > Len(run.candidates)
    /\ LET rows == sorted_by_id(run.triage_rows)
           triage_map == triage_map_of(rows)
       IN run' = [run EXCEPT
                     !.pc = "summarize",
                     !.triage_rows = rows,
                     !.triage_out = rows,
                     !.triage_map = triage_map,
                     !.accepted = select_accepted(run.candidates, triage_map, run.cfg)]
    /\ UNCHANGED <<db, protoVars, sdVars, pol, unitVars>>

\* pipeline.py 223-230: the candidate has a cached summary
SummaryCached ==
    /\ run.pc = "summarize" /\ run.j <= Len(run.accepted)
    /\ LET aid == run.accepted[run.j].arxiv_id_base
       IN /\ ~force_summary(run.cfg)
          /\ aid \in DOMAIN db.summaries
          /\ run' = [run EXCEPT
                        !.summaries = Append(@, db.summaries[aid]),
                        !.summary_map = DictSet(@, aid, db.summaries[aid]),
                        !.pdf_map = DictSet(@, aid, empty_pdf_state),
                        !.j = @ + 1]
    /\ UNCHANGED <<db, protoVars, sdVars, pol, unitVars>>

\* pipeline.py 223-225, 232-299: the text is fetched and, when it is not
\* blank, summarize_paper is called
SummaryCall ==
    /\ run.pc = "summarize" /\ run.j <= Len(run.accepted)
    /\ LET paper == run.accepted[run.j]
           aid == paper.arxiv_id_base
       IN /\ force_summary(run.cfg) \/ aid \notin DOMAIN db.summaries
          /\ \E fetched \in PdfOutcomes, out \in SummarizeOutcomes(paper) :
                LET text == fetch_text(paper, run.cfg, fetched)
                    limited == out.raises /\ out.exc = "RateLimitError"
                    called == [run EXCEPT
                                  !.summarize_calls =
                                      Append(@, [arxiv_id_base |-> aid,
                                                 triage |-> run.triage_map[aid],
                                                 raw_fulltext |-> text.raw_text,
                                                 fetched |-> text.pdf_state]),
                                  !.rate_limited =
                                      IF limited THEN Append(@, "summary") ELSE @]
                IN IF Strip(text.raw_text) = ""
                   THEN /\ run' = [run EXCEPT
                                      !.pdf_map = DictSet(@, aid, text.pdf_state),
                                      !.j = @ + 1]
                        /\ UNCHANGED db
                   ELSE IF out.raises
                   THEN /\ run' = [called EXCEPT !.pc = "raised", !.exc = out.exc]
                        /\ UNCHANGED db
                   ELSE /\ run' = [called EXCEPT
                                      !.summaries = Append(@, out.v),
                                      !.summary_map = DictSet(@, aid, out.v),
                                      !.pdf_map = DictSet(@, aid, text.pdf_state),
                                      !.j = @ + 1]
                        /\ db' = [db EXCEPT
                                     !.summaries = DictSet(@, out.v.arxiv_id_base, out.v)]
    /\ UNCHANGED <<protoVars, sdVars, pol, unitVars>>

\* pipeline.py 303-326: the summaries and the backend rows are written
WriteOutputs ==
    /\ run.pc = "summarize" /\ run.j > Len(run.accepted)
    /\ LET summaries == sorted_by_published_date(run.summaries)
           papers == sorted_by_published(run.candidates)
       IN run' = [run EXCEPT
                     !.pc = "written",
                     !.summaries = summaries,
                     !.papers_out = summaries,
                     !.backend_rows =
                         [k \in 1..Len(papers) |->
                             backend_row(papers[k], run.triage_map, run.summary_map,
                                         run.pdf_map)]]
    /\ UNCHANGED <<db, protoVars, sdVars, pol, unitVars>>

RunNext ==
    \/ TriageCached
    \/ TriageCall
    \/ WriteTriage
    \/ SummaryCached
    \/ SummaryCall
    \/ WriteOutputs

SpecRun == RunInit /\ [][RunNext]_vars

(***************************************************************************)
(* Properties of SpecRun                                                   *)
(***************************************************************************)
IdKey(row) == StrRank(row.arxiv_id_base)

DateIdKey(row) == PairRank(row.published_date, row.arxiv_id_base)

AscendingById(rows) ==
    \A k \in 1..(Len(rows) - 1) : IdKey(rows[k]) <= IdKey(rows[k + 1])

AscendingByDateId(rows) ==
    \A k \in 1..(Len(rows) - 1) : DateIdKey(rows[k]) <= DateIdKey(rows[k + 1])

CandidateIds == {run.candidates[k].arxiv_id_base : k \in 1..Len(run.candidates)}

\* C13: the triage rows run_month writes are in ascending order of
\* arxiv_id_base and the summary rows it writes in ascending order of
\* (published_date, arxiv_id_base), for every fetch order and every cache.
C13_WrittenRowsSorted ==
    /\ run.pc \in {"summarize", "written"} => AscendingById(run.triage_out)
    /\ run.pc = "written" => AscendingByDateId(run.papers_out)

C13_Witness ==
    /\ run.pc = "written"
    /\ run.candidates = <<RunPaperC, RunPaperA, RunPaperB>>
    /\ Len(run.triage_out) = 3
    /\ run.triage_calls = <<RunPaperC.arxiv_id_base, RunPaperB.arxiv_id_base>>
    /\ Len(run.papers_out) = 2
    /\ run.papers_out[1].arxiv_id_base = RunPaperB.arxiv_id_base
    /\ run.papers_out[2].one_liner = "stored"

RowsOf(rows, id) == {k \in 1..Len(rows) : rows[k].arxiv_id_base = id}

SummarizedIds == {run.summarize_calls[k].arxiv_id_base : k \in 1..Len(run.summarize_calls)}

RunStarted == run.pc # "off"

\* C14: with the force flag of its stage off, a candidate that has a cached
\* triage (resp. summary) record is not passed to triage_paper (resp.
\* summarize_paper) and its cached record stays as it was stored.
C14_CacheRespected ==
    RunStarted =>
        \A id \in CandidateIds :
            /\ (~force_triage(run.cfg) /\ id \in DOMAIN run.stored.triage) =>
                  /\ id \notin Range(run.triage_calls)
                  /\ id \in DOMAIN db.triage
                  /\ db.triage[id] = run.stored.triage[id]
            /\ (~force_summary(run.cfg) /\ id \in DOMAIN run.stored.summaries) =>
                  /\ id \notin SummarizedIds
                  /\ id \in DOMAIN db.summaries
                  /\ db.summaries[id] = run.stored.summaries[id]

\* C15: when run_month has written its outputs, every fetched candidate has
\* exactly one row in the triage output and exactly one row of backend_rows
\* carrying a triage decision.
C15_OneRowPerCandidate ==
    run.pc = "written" =>
        \A id \in CandidateIds :
            /\ Cardinality(RowsOf(run.triage_out, id)) = 1
            /\ Cardinality({k \in RowsOf(run.backend_rows, id) :
                   "decision" \in DOMAIN run.backend_rows[k].triage}) = 1

HasFailureReason(pdf_state) ==
    /\ pdf_state.extract_meta.t = "obj"
    /\ "error" \in DOMAIN pdf_state.extract_meta.v
    /\ pdf_state.extract_meta.v["error"].t = "str"
    /\ pdf_state.extract_meta.v["error"].v # ""

\* C16: a download or extraction failure never ends the run, and every
\* candidate of the summary stage that ends the run without a summary has a
\* non-empty pdf.extract_meta.error in its backend row.
C16_SummaryOrReason ==
    /\ run.pc = "raised" => run.exc # "HTTPStatusError"
    /\ run.pc = "written" =>
          \A k \in 1..Len(run.backend_rows) :
              LET row == run.backend_rows[k]
              IN (/\ \E a \in 1..Len(run.accepted) :
                         run.accepted[a].arxiv_id_base = row.arxiv_id_base
                  /\ row.paper_summary = JNull) =>
                      HasFailureReason(row.pdf)

\* C17: once a rate-limit error has reached run_month, in the triage stage
\* or in the summary stage, the run halts if stop_on_rate_limit is set and
\* is not ended by that error if it is unset.
C17_RateLimitFollowsConfig ==
    (RunStarted /\ run.rate_limited # <<>>) =>
        IF run.cfg.stop_on_rate_limit
        THEN run.pc = "raised" /\ run.exc = "RateLimitError"
        ELSE ~(run.pc = "raised" /\ run.exc = "RateLimitError")

IsAutomaticReject(row, aid, kind) ==
    /\ row.arxiv_id_base = aid
    /\ row.decision = "reject"
    /\ row.confidence = 0
    /\ row.reasons = <<"triage_exception:" \o kind, "automatic_reject_fallback">>

\* a step in which triage_paper raised RateLimitError and the run went on
RateLimitedTriageStep ==
    /\ run.pc = "triage" /\ run'.pc = "triage"
    /\ Len(run'.rate_limited) > Len(run.rate_limited)

\* when triage_paper raised RateLimitError and the run went on, the
\* candidate's row is the automatic reject naming the exception type and the
\* triage cache holds that row under the candidate's id
ExceptionRejectUpserted ==
    [][RateLimitedTriageStep =>
          LET aid == run.candidates[run.i].arxiv_id_base
          IN /\ run'.i = run.i + 1
             /\ IsAutomaticReject(run'.triage_rows[run.i], aid, "RateLimitError")
             /\ aid \in DOMAIN db'.triage
             /\ db'.triage[aid] = run'.triage_rows[run.i]]_vars

\* C30: a run without force that starts with the automatic reject of an
\* earlier exception in the triage cache returns that reject for the
\* candidate and does not call triage_paper for it.
C30_ExceptionRejectCached ==
    RunStarted =>
        \A k \in 1..Len(run.candidates) :
            LET aid == run.candidates[k].arxiv_id_base
            IN (/\ ~force_triage(run.cfg)
                /\ aid \in DOMAIN run.stored.triage
                /\ IsAutomaticReject(run.stored.triage[aid], aid, "RuntimeError")
                /\ run.pc = "triage" /\ k < run.i) =>
                   /\ aid \notin Range(run.triage_calls)
                   /\ run.triage_rows[k] = run.stored.triage[aid]

(***************************************************************************)
(* Specification SpecShared: the summary schema is loaded once             *)
(* (pipeline.py:108) and the same dict is handed to every summarize_paper  *)
(* call and to _schema_default.  heap.schema is the dict as it is now,     *)
(* heap.loaded the dict as load_schema returned it.                        *)
(***************************************************************************)
MaxCalls == 3

\* the default a profile's schema may carry for the whole record
RecordDefault ==
    JObj([one_liner |-> JStr("Summary unavailable."),
          key_points |-> JArr(<<JStr("unknown"), JStr("unknown")>>),
          tags |-> JObj(EmptyDict)])

SharedSchemas ==
    {SummarySchemaFull,
     SummarySchemaPartial,
     DictSet(SummarySchemaFull, "default", RecordDefault),
     DictSet(SummarySchemaPartial, "default", RecordDefault),
     DictSet(SummarySchemaPartial, "default", JArr(<<>>))}

\* the arguments of the calls on the shared schema
SharedArgs(schema) ==
    {[paper |-> pt[1], triage |-> pt[2], raw_fulltext |-> "", fulltext_slices |-> Slices,
      used_fulltext |-> uf, notes |-> "meta", llm |-> CounterAbsent, schema |-> schema,
      max_input_tokens |-> MaxInputTokens, allowed_tags |-> AllowedNone] :
        <<pt, uf>> \in PaperTriage \X BOOLEAN}

\* what llm.generate does in these calls: unparsable text, a valid record,
\* a rate limit
SharedResponses ==
    {Returns(TextMalformed), Returns(TextSummaryForged), Raises("RateLimitError")}

\* the dict out of _schema_fallback_output is the object _schema_default
\* returned: when that object is the schema's own default, the injected
\* fields are written into the schema (no schema under test has oneOf or
\* anyOf at the top, so the variant picked is the schema itself)
schema_after_fallback(schema, out) ==
    IF Has(schema, "default") /\ schema["default"].t = "obj"
    THEN DictSet(schema, "default", JObj(out))
    ELSE schema

\* summarize_paper after _select_payload (lines 290-330): how the call
\* ends and what it leaves in the schema
summarize_on(a, notes, r1, r2) ==
    LET first == IF r1.raises THEN Failed ELSE summary_attempt(r1.text, a, notes)
        repair == IF r2.raises THEN Failed ELSE summary_attempt(r2.text, a, notes)
    IN IF r1.raises THEN [ret |-> "raised", schema |-> a.schema]
       ELSE IF first.ok THEN [ret |-> "first", schema |-> a.schema]
       ELSE IF r2.raises /\ ~IsException(r2.exc) THEN [ret |-> "raised", schema |-> a.schema]
       ELSE IF repair.ok THEN [ret |-> "repair", schema |-> a.schema]
       ELSE [ret |-> IF SummaryFallback(a, notes).pc = "done" THEN "fallback" ELSE "raised",
             schema |-> schema_after_fallback(
                            a.schema,
                            schema_fallback_output(a.schema, a.paper, a.used_fulltext,
                                                   fallback_notes(notes)))]

SharedInit ==
    /\ \E schema \in SharedSchemas :
          heap = [pc |-> "loaded", schema |-> schema, loaded |-> schema,
                  defaults |-> <<>>, rets |-> <<>>, call |-> EmptyDict, notes |-> ""]
    /\ ProtoIdle /\ SchemaIdle /\ PolicyIdle /\ RunIdle
    /\ SiteIdle /\ BatchIdle /\ HttpIdle /\ RetryIdle

\* a call _schema_default(schema) on the shared schema
DefaultOnShared ==
    /\ heap.pc = "loaded"
    /\ Len(heap.defaults) + Len(heap.rets) < MaxCalls
    /\ heap' = [heap EXCEPT !.defaults = Append(@, schema_default(heap.schema))]
    /\ UNCHANGED <<protoVars, sdVars, pol, runVars, site, batch, http, retry>>

\* summarize_paper(..., schema=schema, ...) up to its first llm.generate
\* call (lines 278-289)
CallOnShared ==
    /\ heap.pc = "loaded"
    /\ Len(heap.defaults) + Len(heap.rets) < MaxCalls
    /\ \E a \in SharedArgs(heap.schema) :
          LET sel == select_payload(a.paper, a.triage, a.raw_fulltext, a.fulltext_slices,
                                    "summarize", a.llm, a.max_input_tokens, a.allowed_tags)
          IN heap' = [heap EXCEPT
                         !.pc = "called",
                         !.call = a,
                         !.notes = IF a.notes # "" THEN a.notes \o ";" \o sel.note
                                   ELSE sel.note]
    /\ UNCHANGED <<protoVars, sdVars, pol, runVars, site, batch, http, retry>>

\* the rest of the call (lines 290-330)
ReturnOnShared ==
    /\ heap.pc = "called"
    /\ \E r1, r2 \in SharedResponses :
          LET end == summarize_on(heap.call, heap.notes, r1, r2)
          IN heap' = [heap EXCEPT
                         !.pc = "loaded",
                         !.schema = end.schema,
                         !.rets = Append(@, end.ret),
                         !.call = EmptyDict,
                         !.notes = ""]
    /\ UNCHANGED <<protoVars, sdVars, pol, runVars, site, batch, http, retry>>

SharedNext == DefaultOnShared \/ CallOnShared \/ ReturnOnShared

SpecShared == SharedInit /\ [][SharedNext]_vars

\* C23: every call of _schema_default on the schema the run loaded returns
\* the same value, whatever summarize_paper calls ran in between.
C23_SchemaDefaultDeterministic ==
    heap.pc # "off" =>
        \A i, j \in DOMAIN heap.defaults : heap.defaults[i] = heap.defaults[j]

\* C24: the schema handed to summarize_paper is after every call what it was
\* when it was loaded.
C24_SchemaUnchanged ==
    heap.pc # "off" => heap.schema = heap.loaded

(***************************************************************************)
(* Specification SpecSite: write_month_site building the month payload     *)
(* (papers.json) from the backend rows of a month.                         *)
(***************************************************************************)
UpperLetters == "ABCDEFGHIJKLMNOPQRSTUVWXYZ"
LowerLetters == "abcdefghijklmnopqrstuvwxyz"

LowerChar(c) ==
    IF \E k \in 1..Len(UpperLetters) : SubSeq(UpperLetters, k, k) = c
    THEN LET k == CHOOSE k \in 1..Len(UpperLetters) : SubSeq(UpperLetters, k, k) = c
         IN SubSeq(LowerLetters, k, k)
    ELSE c

RECURSIVE Lower(_)
\* Python: s.lower()
Lower(s) == IF s = "" THEN "" ELSE LowerChar(SubSeq(s, 1, 1)) \o Lower(SubSeq(s, 2, Len(s)))

RECURSIVE SplitOn(_, _)
\* Python: s.split(sep) for a one-character sep
SplitOn(s, sep) ==
    IF \E i \in 1..Len(s) : SubSeq(s, i, i) = sep
    THEN LET i == CHOOSE i \in 1..Len(s) :
                    /\ SubSeq(s, i, i) = sep
                    /\ \A j \in 1..(i - 1) : SubSeq(s, j, j) # sep
         IN <<SubSeq(s, 1, i - 1)>> \o SplitOn(SubSeq(s, i + 1, Len(s)), sep)
    ELSE <<s>>

\* Python: s.startswith(prefix)
StartsWith(s, prefix) == Len(s) >= Len(prefix) /\ SubSeq(s, 1, Len(prefix)) = prefix

RetryReasonPrefix == "summary_retry_failed_reason="

\* paper_summary values of a backend row: None or a summary dict
SiteSummaryGood ==
    [notes |-> "ok", key_points |-> <<"p1", "p2">>, unique_contribution |-> "u"]
SiteSummaryFallback ==
    [notes |-> "meta;summary_json_error", key_points |-> <<"unknown", "unknown">>,
     unique_contribution |-> "unknown"]
SiteSummaryRetryFailed ==
    [notes |-> "summary_json_error;summary_retry_failed;summary_retry_failed_reason=rate_limit",
     key_points |-> <<"unknown", "unknown">>, unique_contribution |-> "unknown"]
SiteSummaryRetryNoReason ==
    [notes |-> "summary_json_error;summary_retry_failed;summary_retry_failed_reason= ",
     key_points |-> <<"unknown", "unknown">>, unique_contribution |-> "unknown"]
SiteSummaryUnknownPoints ==
    [notes |-> "ok", key_points |-> <<"Unknown", " ">>, unique_contribution |-> "u"]
SiteSummaryRecovered ==
    [notes |-> "ok;summary_retry_recovered", key_points |-> <<"p1">>,
     unique_contribution |-> " Unknown"]

SiteSummaries ==
    {JNull, SiteSummaryGood, SiteSummaryFallback, SiteSummaryRetryFailed,
     SiteSummaryRetryNoReason, SiteSummaryUnknownPoints, SiteSummaryRecovered}

SitePdfStates ==
    {empty_pdf_state,
     skipped_pdf_state("download_or_extract_failed:ClientError"),
     [downloaded |-> TRUE, pdf_path |-> JStr("a"), text_path |-> JStr("b"),
      extract_meta |-> JObj([tool |-> JStr("pypdf"), error |-> JStr(" ")])],
     [downloaded |-> TRUE, pdf_path |-> JStr("a"), text_path |-> JStr("b"),
      extract_meta |-> JObj([tool |-> JStr("pypdf"), error |-> JNull])]}

SiteDecisions == {"accept", "reject", "borderline"}

SitePaperLists ==
    {<<RunPaperA, RunPaperB>>, <<RunPaperB, RunPaperA>>,
     <<RunPaperC, RunPaperB>>, <<RunPaperB, RunPaperC>>}

SiteRow(paper, decision, summary, pdf) ==
    [arxiv_id_base |-> paper.arxiv_id_base, published |-> paper.published,
     triage |-> [decision |-> decision, confidence |-> 700000, reasons |-> <<"fit">>],
     paper_summary |-> summary, pdf |-> pdf]

\* variant of is_placeholder_summary that reads the notes only
is_placeholder_by_notes(summary) ==
    /\ summary # JNull
    /\ \/ Contains(summary.notes, "summary_json_error")
       \/ Contains(summary.notes, "summary_retry_failed")

is_placeholder_summary(summary) ==
    /\ summary # JNull
    /\ \/ Contains(summary.notes, "summary_json_error")
       \/ Contains(summary.notes, "summary_retry_failed")
       \/ /\ Len(summary.key_points) > 0
          /\ \A k \in 1..Len(summary.key_points) :
                Lower(Strip(summary.key_points[k])) \in {"", "unknown"}
       \/ /\ Lower(Strip(summary.unique_contribution)) \in {"", "unknown"}
          /\ ~Contains(summary.notes, "summary_retry_recovered")

summary_failure_reason(row) ==
    LET meta == row.pdf.extract_meta
        err == IF meta.t = "obj"
               THEN Strip(IF "error" \in DOMAIN meta.v
                          THEN (IF meta.v["error"].t = "str" THEN meta.v["error"].v
                                ELSE "None")
                          ELSE "")
               ELSE ""
    IN IF err # "" THEN err ELSE "summary_unavailable"

placeholder_failure_reason(summary, row) ==
    LET notes == Strip(summary.notes)
        tokens == SplitOn(notes, ";")
        reason(k) == Strip(SubSeq(Strip(tokens[k]), Len(RetryReasonPrefix) + 1,
                                  Len(Strip(tokens[k]))))
        hits == {k \in 1..Len(tokens) :
                    StartsWith(Strip(tokens[k]), RetryReasonPrefix) /\ reason(k) # ""}
    IN IF hits # {} THEN reason(CHOOSE k \in hits : \A h \in hits : k <= h)
       ELSE IF Contains(notes, "summary_retry_failed") THEN "summary_retry_failed"
       ELSE IF Contains(notes, "summary_json_error") THEN "summary_json_error"
       ELSE summary_failure_reason(row)

site_row(row) ==
    LET summary == row.paper_summary
        failed == summary = JNull \/ is_placeholder_summary(summary)
    IN [arxiv_id_base |-> Strip(row.arxiv_id_base),
        published_date |-> Prefix(Strip(row.published), 10),
        triage |-> row.triage,
        summary |-> IF failed THEN JNull ELSE summary,
        summary_failed_reason |->
            IF summary = JNull THEN JStr(summary_failure_reason(row))
            ELSE IF is_placeholder_summary(summary)
                 THEN JStr(placeholder_failure_reason(summary, row))
                 ELSE JNull]

keeps_row(row) == Strip(row.arxiv_id_base) # "" /\ row.triage.decision = "accept"

RECURSIVE rows_of(_)
rows_of(sorted) ==
    IF sorted = <<>> THEN <<>>
    ELSE (IF keeps_row(Head(sorted)) THEN <<site_row(Head(sorted))>> ELSE <<>>)
         \o rows_of(Tail(sorted))

paper_rows_from_backend(backend_rows) ==
    rows_of(SortedBy(backend_rows,
                     [k \in 1..Len(backend_rows) |->
                         PairRank(backend_rows[k].published, backend_rows[k].arxiv_id_base)]))

SiteInit ==
    /\ \E papers \in SitePaperLists :
       \E choice \in [1..Len(papers) -> SiteDecisions \X SiteSummaries \X SitePdfStates] :
          site = [pc |-> "rows",
                  backend_rows |-> [k \in 1..Len(papers) |->
                                       SiteRow(papers[k], choice[k][1], choice[k][2],
                                               choice[k][3])],
                  papers |-> <<>>]
    /\ ProtoIdle /\ SchemaIdle /\ PolicyIdle /\ RunIdle
    /\ HeapIdle /\ BatchIdle /\ HttpIdle /\ RetryIdle

WriteMonthSite ==
    /\ site.pc = "rows"
    /\ site' = [site EXCEPT !.pc = "written",
                            !.papers = paper_rows_from_backend(site.backend_rows)]
    /\ UNCHANGED <<protoVars, sdVars, pol, runVars, heap, batch, http, retry>>

SiteNext == WriteMonthSite

SpecSite == SiteInit /\ [][SiteNext]_vars

AcceptedBackendRows ==
    {k \in 1..Len(site.backend_rows) : site.backend_rows[k].triage.decision = "accept"}

BackendRowOf(aid) ==
    site.backend_rows[CHOOSE k \in 1..Len(site.backend_rows) :
                          site.backend_rows[k].arxiv_id_base = aid]

\* C25: the papers of the month payload built from backend rows are exactly
\* the rows whose triage decision is accept, in ascending order of
\* (published, arxiv_id_base); each has a summary and no failure reason, or
\* no summary and a non-empty failure reason, and a placeholder summary is
\* replaced by its reason.
C25_PayloadRows ==
    site.pc = "written" =>
        /\ Len(site.papers) = Cardinality(AcceptedBackendRows)
        /\ {site.papers[k].arxiv_id_base : k \in 1..Len(site.papers)}
              = {site.backend_rows[k].arxiv_id_base : k \in AcceptedBackendRows}
        /\ \A i, j \in 1..Len(site.papers) :
              i < j => PairRank(BackendRowOf(site.papers[i].arxiv_id_base).published,
                                site.papers[i].arxiv_id_base)
                          < PairRank(BackendRowOf(site.papers[j].arxiv_id_base).published,
                                     site.papers[j].arxiv_id_base)
        /\ \A k \in 1..Len(site.papers) :
              LET p == site.papers[k]
                  given == BackendRowOf(p.arxiv_id_base).paper_summary
              IN /\ \/ p.summary # JNull /\ p.summary_failed_reason = JNull
                    \/ /\ p.summary = JNull
                       /\ p.summary_failed_reason.t = "str"
                       /\ p.summary_failed_reason.v # ""
                 /\ p.summary # JNull => p.summary = given
                 /\ given \in {SiteSummaryFallback, SiteSummaryRetryFailed,
                               SiteSummaryRetryNoReason, SiteSummaryUnknownPoints}
                       => p.summary = JNull

C25_Witness ==
    /\ site.pc = "written"
    /\ Len(site.backend_rows) = 2
    /\ site.backend_rows[1].arxiv_id_base = "2501.00003"
    /\ site.backend_rows[2].arxiv_id_base = "2501.00002"
    /\ Len(site.papers) = 2
    /\ site.papers[1].arxiv_id_base = "2501.00002"
    /\ site.papers[1].summary = JNull
    /\ site.papers[1].summary_failed_reason = JStr("rate_limit")
    /\ site.papers[2].summary = SiteSummaryGood

(***************************************************************************)
(* Specification SpecBatch: run_batch, triage phase over the effective     *)
(* months and then summary phase over the same months, with the clients    *)
(* and the database closed by the finally blocks.                          *)
(***************************************************************************)
\* sorted(set(months)) of _effective_months
MonthLists == {<<"2025-01">>, <<"2025-01", "2025-02">>, <<"2025-01", "2025-02", "2025-03">>}

\* what one pass of the triage loop does for a candidate
BatchTriageOutcomes == {"cached", "result", "Exception", "RateLimitStop"}

\* how _run_summary_phase_for_month ends
BatchSummaryOutcomes == {"done", "RateLimitStop", "RuntimeError"}

BatchEvent(ev, month) == [ev |-> ev, month |-> month]

\* an exception leaving run_batch: the finally blocks on its way close the
\* client of the phase and the database
batch_raise(b, kind, phase) ==
    [b EXCEPT !.pc = "exited", !.exc = kind, !.raised_in = phase,
              !.triage_open = FALSE, !.summary_open = FALSE, !.db_open = FALSE]

\* variant of the month loop that enters the summary phase after the first
\* month's triage
summary_after_first_month(b) ==
    [b EXCEPT !.pc = "summary", !.triage_open = FALSE, !.summary_open = TRUE]

\* the end of one month's triage: the next month, or phase 2 from the first
\* month after triage_close()
after_triage_month(b) ==
    IF b.m < Len(b.months)
    THEN [b EXCEPT !.m = b.m + 1, !.i = 1]
    ELSE [b EXCEPT !.pc = "summary", !.m = 1, !.triage_open = FALSE, !.summary_open = TRUE]

BatchInit ==
    /\ \E months \in MonthLists, candidates \in FetchedLists :
        batch = [pc |-> "triage", months |-> months, candidates |-> candidates,
                 m |-> 1, i |-> 1, upserted |-> {}, triage_files |-> {}, log |-> <<>>,
                 triage_open |-> TRUE, summary_open |-> FALSE, db_open |-> TRUE,
                 exc |-> "none", raised_in |-> "none"]
    /\ ProtoIdle /\ SchemaIdle /\ PolicyIdle /\ RunIdle
    /\ HeapIdle /\ SiteIdle /\ HttpIdle /\ RetryIdle

\* one pass of the candidate loop of _run_triage_phase_for_month
BatchTriagePaper ==
    /\ batch.pc = "triage"
    /\ batch.i <= Len(batch.candidates)
    /\ \E outcome \in BatchTriageOutcomes :
        LET month == batch.months[batch.m]
            aid == batch.candidates[batch.i].arxiv_id_base
            started == IF batch.i = 1
                       THEN [batch EXCEPT !.log = Append(batch.log,
                                                         BatchEvent("triage_start", month))]
                       ELSE batch
        IN batch' =
            CASE outcome = "RateLimitStop" -> batch_raise(started, "RateLimitStop", "triage")
              [] outcome = "cached" -> [started EXCEPT !.i = batch.i + 1]
              [] OTHER ->
                   [started EXCEPT !.i = batch.i + 1,
                                   !.upserted = batch.upserted \cup {<<month, aid>>}]
    /\ UNCHANGED <<protoVars, sdVars, pol, runVars, heap, site, http, retry>>

\* the tail of _run_triage_phase_for_month and the step of the month loop
BatchWriteTriage ==
    /\ batch.pc = "triage"
    /\ batch.i > Len(batch.candidates)
    /\ LET month == batch.months[batch.m]
       IN batch' = after_triage_month(
              [batch EXCEPT !.triage_files = batch.triage_files \cup {month},
                            !.log = Append(batch.log, BatchEvent("triage_done", month))])
    /\ UNCHANGED <<protoVars, sdVars, pol, runVars, heap, site, http, retry>>

\* _run_summary_phase_for_month for one month and the step of its loop
BatchSummaryMonth ==
    /\ batch.pc = "summary"
    /\ \E outcome \in BatchSummaryOutcomes :
        LET month == batch.months[batch.m]
            started == [batch EXCEPT !.log = Append(batch.log, BatchEvent("summary", month))]
        IN batch' =
            IF outcome # "done" THEN batch_raise(started, outcome, "summary")
            ELSE IF batch.m < Len(batch.months) THEN [started EXCEPT !.m = batch.m + 1]
            ELSE [started EXCEPT !.pc = "exited", !.summary_open = FALSE, !.db_open = FALSE]
    /\ UNCHANGED <<protoVars, sdVars, pol, runVars, heap, site, http, retry>>

BatchNext == BatchTriagePaper \/ BatchWriteTriage \/ BatchSummaryMonth

SpecBatch == BatchInit /\ [][BatchNext]_vars

BatchLogged(ev, month, before) ==
    \E k \in 1..(before - 1) : batch.log[k] = BatchEvent(ev, month)

\* C27: no month's summary phase starts before the triage phase has finished
\* for every effective month; when RateLimitStop aborts the triage phase, no
\* summary phase has run, the interrupted month's triage file is not
\* written, and the database connection is closed.
C27_TriageBeforeSummary ==
    batch.pc # "off" =>
        /\ \A k \in 1..Len(batch.log) :
              batch.log[k].ev = "summary" =>
                  \A n \in 1..Len(batch.months) :
                      BatchLogged("triage_done", batch.months[n], k)
        /\ \A k \in 1..Len(batch.log) :
              batch.log[k].ev \in {"triage_start", "triage_done"} =>
                  \A n \in 1..Len(batch.months) :
                      ~BatchLogged("summary", batch.months[n], k)
        /\ (batch.exc = "RateLimitStop" /\ batch.raised_in = "triage") =>
              /\ batch.pc = "exited"
              /\ \A k \in 1..Len(batch.log) : batch.log[k].ev # "summary"
              /\ batch.months[batch.m] \notin batch.triage_files
              /\ ~batch.db_open

C27_Witness ==
    /\ batch.pc = "exited"
    /\ batch.exc = "RateLimitStop"
    /\ batch.raised_in = "triage"
    /\ Len(batch.months) = 3
    /\ batch.m = 2
    /\ batch.i = 2
    /\ batch.triage_files = {"2025-01"}
    /\ <<"2025-02", batch.candidates[1].arxiv_id_base>> \in batch.upserted
    /\ ~batch.db_open

(***************************************************************************)
(* Specification SpecHttp: OpenAICompatClient.generate, one HTTP request   *)
(* per step, over the calls one client serves.                             *)
(***************************************************************************)
MaxGenerate == 2

\* status codes the endpoint answers with
HttpStatuses == {200, 204, 400, 401, 422, 429, 500, 503}

\* text _extract_text finds in a response body
HttpTexts == {"", "{}"}

\* variant of _request that hands every response back
request_unchecked(status) == "response"

\* _request: the exception it raises for a status, or "response"
request(status) ==
    IF status = 429 THEN "RateLimitError"
    ELSE IF status >= 500 THEN "RuntimeError"
    ELSE "response"

\* response.raise_for_status() followed by the text check
read_response(status, text) ==
    IF status < 200 \/ status >= 300 THEN "HTTPStatusError"
    ELSE IF text = "" THEN "RuntimeError"
    ELSE "returned"

HttpSent(with_schema, status) == [with_schema |-> with_schema, status |-> status]

\* generate returns or raises: the call joins the client's history
http_finish(h, sent, outcome) ==
    [h EXCEPT !.pc = "idle", !.sent = sent, !.outcome = outcome,
              !.history = Append(h.history,
                                 [given |-> h.given, sent |-> sent, outcome |-> outcome])]

HttpInit ==
    /\ http = [pc |-> "idle", given |-> FALSE, attempted_schema |-> FALSE, sent |-> <<>>,
               outcome |-> "none", history |-> <<>>]
    /\ ProtoIdle /\ SchemaIdle /\ PolicyIdle /\ RunIdle
    /\ HeapIdle /\ SiteIdle /\ BatchIdle /\ RetryIdle

\* generate(prompt, schema) is entered
HttpGenerate ==
    /\ http.pc = "idle"
    /\ Len(http.history) < MaxGenerate
    /\ \E given \in BOOLEAN :
        http' = [http EXCEPT !.pc = IF given THEN "schema" ELSE "base",
                             !.given = given, !.attempted_schema = given,
                             !.sent = <<>>, !.outcome = "none"]
    /\ UNCHANGED <<protoVars, sdVars, pol, runVars, heap, site, batch, retry>>

\* the request carrying response_format
HttpSchemaRequest ==
    /\ http.pc = "schema"
    /\ \E status \in HttpStatuses, text \in HttpTexts :
        LET sent == Append(http.sent, HttpSent(TRUE, status))
        IN http' =
            IF request(status) # "response" THEN http_finish(http, sent, request(status))
            ELSE IF status \in {400, 422}
                 THEN [http EXCEPT !.pc = "base", !.sent = sent, !.attempted_schema = FALSE]
                 ELSE http_finish(http, sent, read_response(status, text))
    /\ UNCHANGED <<protoVars, sdVars, pol, runVars, heap, site, batch, retry>>

\* the request without response_format, and the repeat the code keeps for a
\* 400 or 422 answer while attempted_schema is set
HttpBaseRequest ==
    /\ http.pc = "base"
    /\ \E status \in HttpStatuses, text \in HttpTexts,
          again \in HttpStatuses, again_text \in HttpTexts :
        LET sent == Append(http.sent, HttpSent(FALSE, status))
            sent_again == Append(sent, HttpSent(FALSE, again))
        IN http' =
            IF request(status) # "response" THEN http_finish(http, sent, request(status))
            ELSE IF status \in {400, 422} /\ http.attempted_schema
                 THEN (IF request(again) # "response"
                       THEN http_finish(http, sent_again, request(again))
                       ELSE http_finish(http, sent_again, read_response(again, again_text)))
                 ELSE http_finish(http, sent, read_response(status, text))
    /\ UNCHANGED <<protoVars, sdVars, pol, runVars, heap, site, batch, retry>>

HttpNext == HttpGenerate \/ HttpSchemaRequest \/ HttpBaseRequest

SpecHttp == HttpInit /\ [][HttpNext]_vars

\* the requests of a call of generate obey the client's protocol
HttpCallOk(given, sent, finished, outcome) ==
    /\ Len(sent) <= 2
    /\ \A k \in 1..Len(sent) :
          /\ sent[k].with_schema => (given /\ k = 1)
          /\ ~sent[k].with_schema =>
                \/ ~given /\ k = 1
                \/ given /\ k = 2 /\ sent[1].with_schema /\ sent[1].status \in {400, 422}
          /\ sent[k].status = 429 =>
                k = Len(sent) /\ (finished => outcome = "RateLimitError")
          /\ sent[k].status >= 500 =>
                k = Len(sent) /\ (finished => outcome \in {"RuntimeError", "HTTPStatusError"})

\* C28: a call of generate sends at most two requests; the request without
\* the schema is sent only when no schema was given or the schema request
\* was answered 400 or 422; a 429 answer raises RateLimitError and a status
\* of 500 or more raises an error, each time with no further request.
C28_AtMostTwoRequests ==
    http.pc # "off" =>
        /\ HttpCallOk(http.given, http.sent, http.pc = "idle", http.outcome)
        /\ \A c \in 1..Len(http.history) :
              HttpCallOk(http.history[c].given, http.history[c].sent, TRUE,
                         http.history[c].outcome)

C28_Witness ==
    /\ http.pc = "idle"
    /\ Len(http.history) = 2
    /\ http.history[1] = [given |-> TRUE,
                          sent |-> <<HttpSent(TRUE, 422), HttpSent(FALSE, 429)>>,
                          outcome |-> "RateLimitError"]
    /\ http.history[2] = [given |-> TRUE, sent |-> <<HttpSent(TRUE, 503)>>,
                          outcome |-> "RuntimeError"]

(***************************************************************************)
(* Specification SpecRetry: the retry marks applied, in any order, to a    *)
(* fallback record of summarize_paper.                                     *)
(***************************************************************************)
MaxMarks == 4

\* notes of a fallback record: the caller's notes, the input mode, the marker
FallbackNotes ==
    {"summary_json_error",
     "input_mode=fulltext;summary_json_error",
     "meta;input_mode=fulltext_slices;reason=missing_fulltext;summary_json_error "}

FallbackRecords ==
    {[notes |-> n, key_points |-> <<"unknown", "unknown">>, unique_contribution |-> u] :
        <<n, u>> \in FallbackNotes \X {"unknown", "Summary unavailable."}}

RetryReasons == {"rate_limit", "", "summary_retry_recovered"}

should_retry_cached_summary(summary) ==
    IF ~is_placeholder_summary(summary) THEN FALSE
    ELSE IF Contains(summary.notes, "summary_retry_failed") THEN FALSE
    ELSE TRUE

with_marker(summary, marker) ==
    LET notes == Strip(summary.notes)
    IN [summary EXCEPT !.notes = IF notes # "" THEN notes \o ";" \o marker ELSE marker]

mark_summary_retry_failed(summary, reason) ==
    with_marker(summary, "summary_retry_failed;summary_retry_failed_reason=" \o reason)

\* variant of mark_summary_retry_recovered that overwrites the notes
mark_recovered_only(summary) == [summary EXCEPT !.notes = "summary_retry_recovered"]

mark_summary_retry_recovered(summary) == with_marker(summary, "summary_retry_recovered")

RetryInit ==
    /\ \E summary \in FallbackRecords :
        retry = [pc |-> "cached", summary |-> summary, failed |-> 0, recovered |-> 0]
    /\ ProtoIdle /\ SchemaIdle /\ PolicyIdle /\ RunIdle
    /\ HeapIdle /\ SiteIdle /\ BatchIdle /\ HttpIdle

MarkRetryFailed ==
    /\ retry.pc = "cached"
    /\ retry.failed + retry.recovered < MaxMarks
    /\ \E reason \in RetryReasons :
        retry' = [retry EXCEPT !.summary = mark_summary_retry_failed(retry.summary, reason),
                               !.failed = retry.failed + 1]
    /\ UNCHANGED <<protoVars, sdVars, pol, runVars, heap, site, batch, http>>

MarkRetryRecovered ==
    /\ retry.pc = "cached"
    /\ retry.failed + retry.recovered < MaxMarks
    /\ retry' = [retry EXCEPT !.summary = mark_summary_retry_recovered(retry.summary),
                              !.recovered = retry.recovered + 1]
    /\ UNCHANGED <<protoVars, sdVars, pol, runVars, heap, site, batch, http>>

RetryNext == MarkRetryFailed \/ MarkRetryRecovered

SpecRetry == RetryInit /\ [][RetryNext]_vars

\* C29: a fallback record is eligible for a cached retry exactly as long as
\* mark_summary_retry_failed has not been applied to it, whatever other
\* marks were applied before or after.
C29_RetryUntilMarkedFailed ==
    retry.pc # "off" =>
        (should_retry_cached_summary(retry.summary) <=> retry.failed = 0)

C29_Witness ==
    /\ retry.pc = "cached"
    /\ retry.failed = 1
    /\ retry.recovered = 2
    /\ retry.summary.notes =
          "summary_json_error;summary_retry_recovered;"
          \o "summary_retry_failed;summary_retry_failed_reason=rate_limit;"
          \o "summary_retry_recovered"
    /\ ~should_retry_cached_summary(retry.summary)
====
